---------------------------- MODULE Spec2Model ----------------------------
(***************************************************************************)
(* Model of the NCDS markup pipeline of figma-developer-mcp-ncds:          *)
(*   - the component mapper (NCDS_COMPONENT_RULES, its inferencers,        *)
(*     mapToNcdsComponent, validateNcdsMapping), and                       *)
(*   - the generator class NcdsHtmlGenerator (generateFromDesign and the   *)
(*     recursive rendering below it).                                      *)
(*                                                                         *)
(* Representation.                                                         *)
(*   A JavaScript string that the code inspects (a node name, a text, a    *)
(*   label) is a sequence of one-character strings, so that includes(),    *)
(*   toLowerCase() and the regular expressions of toPhpNaming are computed *)
(*   character by character.  Emitted markup is a sequence of strings: the *)
(*   literal chunks of a template are single elements, interpolated values *)
(*   are spliced in.  Enumerated property values ('md', 'primary', ...)    *)
(*   are TLA+ strings.                                                     *)
(*   An optional field is <<>> when absent and <<v>> when present.         *)
(*   Literals that are not ASCII in the source are written ko:<romanised>. *)
(***************************************************************************)
EXTENDS Integers, Sequences, FiniteSets, TLC

VARIABLES
  rules,             \* the exported array NCDS_COMPONENT_RULES (module state)
  options,           \* NcdsHtmlGenerator.options
  usedComponents,    \* NcdsHtmlGenerator.usedComponents (a Set: insertion ordered)
  componentCounter,  \* NcdsHtmlGenerator.componentCounter
  pc,                \* where the caller is: "idle", "returned", "mapped", ...
  before,            \* history: usedComponents and componentCounter on entry of that call
  design,            \* the argument of the call in progress / just returned
  result,            \* the value the last call returned
  node,              \* the argument of the last mapToNcdsComponent call
  mapping,           \* the value mapToNcdsComponent returned
  valid,             \* the value validateNcdsMapping returned
  inferred,          \* the value inferSize returned
  params,            \* generateNcdsHtml: the parameters of the call in progress
  rawApiResponse,    \* generateNcdsHtml: what the fetch resolved with
  error,             \* generateNcdsHtml: the value the catch clause caught
  response           \* generateNcdsHtml: the value the handler returned

vars == <<rules, options, usedComponents, componentCounter, pc, before, design, result,
          node, mapping, valid, inferred, params, rawApiResponse, error, response>>

\* The variables of the tool handler, and their value when no call is in progress.
handlerVars == <<params, rawApiResponse, error, response>>

NoHandlerCall ==
  /\ params = <<>>
  /\ rawApiResponse = <<>>
  /\ error = <<>>
  /\ response = <<>>

-----------------------------------------------------------------------------
(* String literals of the source, as character sequences. *)
S ==
      ("button" :> <<"b","u","t","t","o","n">>)
   @@ ("btn" :> <<"b","t","n">>)
   @@ ("click" :> <<"c","l","i","c","k">>)
   @@ ("submit" :> <<"s","u","b","m","i","t">>)
   @@ ("input" :> <<"i","n","p","u","t">>)
   @@ ("field" :> <<"f","i","e","l","d">>)
   @@ ("text" :> <<"t","e","x","t">>)
   @@ ("label" :> <<"l","a","b","e","l">>)
   @@ ("checkbox" :> <<"c","h","e","c","k","b","o","x">>)
   @@ ("check" :> <<"c","h","e","c","k">>)
   @@ ("radio" :> <<"r","a","d","i","o">>)
   @@ ("select" :> <<"s","e","l","e","c","t">>)
   @@ ("dropdown" :> <<"d","r","o","p","d","o","w","n">>)
   @@ ("combo" :> <<"c","o","m","b","o">>)
   @@ ("badge" :> <<"b","a","d","g","e">>)
   @@ ("tag" :> <<"t","a","g">>)
   @@ ("chip" :> <<"c","h","i","p">>)
   @@ ("modal" :> <<"m","o","d","a","l">>)
   @@ ("dialog" :> <<"d","i","a","l","o","g">>)
   @@ ("popup" :> <<"p","o","p","u","p">>)
   @@ ("tab" :> <<"t","a","b">>)
   @@ ("table" :> <<"t","a","b","l","e">>)
   @@ ("pagination" :> <<"p","a","g","i","n","a","t","i","o","n">>)
   @@ ("pager" :> <<"p","a","g","e","r">>)
   @@ ("progress" :> <<"p","r","o","g","r","e","s","s">>)
   @@ ("bar" :> <<"b","a","r">>)
   @@ ("notification" :> <<"n","o","t","i","f","i","c","a","t","i","o","n">>)
   @@ ("alert" :> <<"a","l","e","r","t">>)
   @@ ("toast" :> <<"t","o","a","s","t">>)
   @@ ("vertical" :> <<"v","e","r","t","i","c","a","l">>)
   @@ ("circle" :> <<"c","i","r","c","l","e">>)
   @@ ("circular" :> <<"c","i","r","c","u","l","a","r">>)
   @@ ("spinner" :> <<"s","p","i","n","n","e","r">>)
   @@ ("loading" :> <<"l","o","a","d","i","n","g">>)
   @@ ("loader" :> <<"l","o","a","d","e","r">>)
   @@ ("stage" :> <<"s","t","a","g","e">>)
   @@ ("toggle" :> <<"t","o","g","g","l","e">>)
   @@ ("switch" :> <<"s","w","i","t","c","h">>)
   @@ ("tooltip" :> <<"t","o","o","l","t","i","p">>)
   @@ ("slider" :> <<"s","l","i","d","e","r">>)
   @@ ("range" :> <<"r","a","n","g","e">>)
   @@ ("breadcrumb" :> <<"b","r","e","a","d","c","r","u","m","b">>)
   @@ ("bread" :> <<"b","r","e","a","d">>)
   @@ ("divider" :> <<"d","i","v","i","d","e","r">>)
   @@ ("separator" :> <<"s","e","p","a","r","a","t","o","r">>)
   @@ ("line" :> <<"l","i","n","e">>)
   @@ ("empty" :> <<"e","m","p","t","y">>)
   @@ ("no-data" :> <<"n","o","-","d","a","t","a">>)
   @@ ("no-result" :> <<"n","o","-","r","e","s","u","l","t">>)
   @@ ("icon" :> <<"i","c","o","n">>)
   @@ ("featured" :> <<"f","e","a","t","u","r","e","d">>)
   @@ ("disabled" :> <<"d","i","s","a","b","l","e","d">>)
   @@ ("required" :> <<"r","e","q","u","i","r","e","d">>)
   @@ ("checked" :> <<"c","h","e","c","k","e","d">>)
   @@ ("selected" :> <<"s","e","l","e","c","t","e","d">>)
   @@ ("on" :> <<"o","n">>)
   @@ ("active" :> <<"a","c","t","i","v","e">>)
   @@ ("title" :> <<"t","i","t","l","e">>)
   @@ ("description" :> <<"d","e","s","c","r","i","p","t","i","o","n">>)
   @@ ("primary" :> <<"p","r","i","m","a","r","y">>)
   @@ ("secondary" :> <<"s","e","c","o","n","d","a","r","y">>)
   @@ ("destructive" :> <<"d","e","s","t","r","u","c","t","i","v","e">>)
   @@ ("danger" :> <<"d","a","n","g","e","r">>)
   @@ ("delete" :> <<"d","e","l","e","t","e">>)
   @@ ("link" :> <<"l","i","n","k">>)
   @@ ("tertiary" :> <<"t","e","r","t","i","a","r","y">>)
   @@ ("gray" :> <<"g","r","a","y">>)
   @@ ("xxs" :> <<"x","x","s">>)
   @@ ("tiny" :> <<"t","i","n","y">>)
   @@ ("xs" :> <<"x","s">>)
   @@ ("small" :> <<"s","m","a","l","l">>)
   @@ ("sm" :> <<"s","m">>)
   @@ ("lg" :> <<"l","g">>)
   @@ ("large" :> <<"l","a","r","g","e">>)
   @@ ("xl" :> <<"x","l">>)
   @@ ("xlarge" :> <<"x","l","a","r","g","e">>)
   @@ ("2xl" :> <<"2","x","l">>)
   @@ ("xxlarge" :> <<"x","x","l","a","r","g","e">>)
   @@ ("success" :> <<"s","u","c","c","e","s","s">>)
   @@ ("green" :> <<"g","r","e","e","n">>)
   @@ ("warning" :> <<"w","a","r","n","i","n","g">>)
   @@ ("yellow" :> <<"y","e","l","l","o","w">>)
   @@ ("error" :> <<"e","r","r","o","r">>)
   @@ ("red" :> <<"r","e","d">>)
   @@ ("info" :> <<"i","n","f","o">>)
   @@ ("blue" :> <<"b","l","u","e">>)
   @@ ("Enter text..." :> <<"E","n","t","e","r"," ","t","e","x","t",".",".",".">>)
   @@ ("Select an option" :> <<"S","e","l","e","c","t"," ","a","n"," ","o","p","t","i","o","n">>)
   @@ ("Modal Title" :> <<"M","o","d","a","l"," ","T","i","t","l","e">>)
   @@ ("Notification" :> <<"N","o","t","i","f","i","c","a","t","i","o","n">>)
   @@ ("Dropdown" :> <<"D","r","o","p","d","o","w","n">>)
   @@ ("No Data" :> <<"N","o"," ","D","a","t","a">>)
   @@ ("Home" :> <<"H","o","m","e">>)
   @@ ("Current" :> <<"C","u","r","r","e","n","t">>)
   @@ ("/" :> <<"/">>)
   @@ ("#" :> <<"#">>)
   @@ ("Button" :> <<"B","u","t","t","o","n">>)
   @@ ("Checkbox" :> <<"C","h","e","c","k","b","o","x">>)
   @@ ("Radio" :> <<"R","a","d","i","o">>)
   @@ ("Badge" :> <<"B","a","d","g","e">>)
   @@ ("Tag" :> <<"T","a","g">>)
   @@ ("Tooltip" :> <<"T","o","o","l","t","i","p">>)
   @@ ("Modal content" :> <<"M","o","d","a","l"," ","c","o","n","t","e","n","t">>)
   @@ ("Empty State" :> <<"E","m","p","t","y"," ","S","t","a","t","e">>)
   @@ ("Page" :> <<"P","a","g","e">>)
   @@ ("/page" :> <<"/","p","a","g","e">>)
   @@ ("1" :> <<"1">>)
   @@ ("2" :> <<"2">>)
   @@ ("_" :> <<"_">>)
   @@ ("ko:opsyeon 1" :> <<"k","o",":","o","p","s","y","e","o","n"," ","1">>)
   @@ ("ko:opsyeon 2" :> <<"k","o",":","o","p","s","y","e","o","n"," ","2">>)
   @@ ("ko:opsyeon " :> <<"k","o",":","o","p","s","y","e","o","n"," ">>)
   @@ ("ko:tegseuteu" :> <<"k","o",":","t","e","g","s","e","u","t","e","u">>)
   @@ ("ko:taeb 1" :> <<"k","o",":","t","a","e","b"," ","1">>)
   @@ ("ko:taeb 2" :> <<"k","o",":","t","a","e","b"," ","2">>)

-----------------------------------------------------------------------------
(* JavaScript primitives used by the code. *)

\* String.prototype.toLowerCase, on the letters that occur in the inputs.
UpperToLower ==
  [c \in {"A","B","C","D","E","F","G","H","I","J","K","L","M","N","O","P","Q",
          "R","S","T","U","V","W","X","Y","Z"} |->
     CASE c = "A" -> "a" [] c = "B" -> "b" [] c = "C" -> "c" [] c = "D" -> "d"
       [] c = "E" -> "e" [] c = "F" -> "f" [] c = "G" -> "g" [] c = "H" -> "h"
       [] c = "I" -> "i" [] c = "J" -> "j" [] c = "K" -> "k" [] c = "L" -> "l"
       [] c = "M" -> "m" [] c = "N" -> "n" [] c = "O" -> "o" [] c = "P" -> "p"
       [] c = "Q" -> "q" [] c = "R" -> "r" [] c = "S" -> "s" [] c = "T" -> "t"
       [] c = "U" -> "u" [] c = "V" -> "v" [] c = "W" -> "w" [] c = "X" -> "x"
       [] c = "Y" -> "y" [] c = "Z" -> "z"]

toLowerCase(s) ==
  [i \in 1..Len(s) |-> IF s[i] \in DOMAIN UpperToLower THEN UpperToLower[s[i]] ELSE s[i]]

\* String.prototype.includes: t occurs in s as a contiguous substring.
includes(s, t) ==
  \E i \in 1..(Len(s) - Len(t) + 1) :
     /\ s[i] = t[1]
     /\ \A j \in 2..Len(t) : s[i + j - 1] = t[j]

\* Truthiness of an optional string: present and not ''.
truthy(o) == o # <<>> /\ o[1] # <<>>

\* o || d for an optional string o and a string d.
orElse(o, d) == IF truthy(o) THEN o[1] ELSE d

\* o1 || o2 for two optional strings (the result is optional again).
orOpt(o1, o2) == IF truthy(o1) THEN o1 ELSE o2

\* The lower-cased display name every rule and inferencer starts from.
lname(n) == toLowerCase(n.name)

\* `${index + 1}`: the decimal digits of a positive integer.
RECURSIVE toDecimal(_)
toDecimal(k) ==
  LET d == <<"0","1","2","3","4","5","6","7","8","9">>
  IN  IF k < 10 THEN <<d[k + 1]>> ELSE Append(toDecimal(k \div 10), d[(k % 10) + 1])

\* The mapper's null.
null == [isNull |-> TRUE]

-----------------------------------------------------------------------------
(* Helper functions of the mapper (inferencers). *)

inferButtonTheme(n) ==
  LET name == lname(n)
  IN  IF includes(name, S["primary"]) THEN "primary"
      ELSE IF includes(name, S["secondary"]) THEN "secondary"
      ELSE IF \/ includes(name, S["destructive"])
              \/ includes(name, S["danger"])
              \/ includes(name, S["delete"]) THEN "destructive"
      ELSE IF includes(name, S["link"]) THEN "link"
      ELSE IF includes(name, S["tertiary"]) THEN "tertiary"
      ELSE IF includes(name, S["gray"]) THEN "secondary-gray"
      ELSE "primary"

inferSize(n) ==
  IF n.layout = <<>> THEN "md"
  ELSE LET name == lname(n)
       IN  IF includes(name, S["xxs"]) \/ includes(name, S["tiny"]) THEN "xxs"
           ELSE IF includes(name, S["xs"]) \/ includes(name, S["small"]) THEN "xs"
           ELSE IF includes(name, S["sm"]) THEN "sm"
           ELSE IF includes(name, S["lg"]) \/ includes(name, S["large"]) THEN "lg"
           ELSE IF includes(name, S["xl"]) \/ includes(name, S["xlarge"]) THEN "xl"
           ELSE IF includes(name, S["2xl"]) \/ includes(name, S["xxlarge"]) THEN "2xl"
           ELSE "md"

inferBadgeColor(n) ==
  LET name == lname(n)
  IN  IF includes(name, S["success"]) \/ includes(name, S["green"]) THEN "success"
      ELSE IF includes(name, S["warning"]) \/ includes(name, S["yellow"]) THEN "warning"
      ELSE IF includes(name, S["error"]) \/ includes(name, S["red"]) THEN "error"
      ELSE IF includes(name, S["info"]) \/ includes(name, S["blue"]) THEN "info"
      ELSE "default"

inferNotificationType(n) ==
  LET name == lname(n)
  IN  IF includes(name, S["success"]) THEN "success"
      ELSE IF includes(name, S["warning"]) THEN "warning"
      ELSE IF includes(name, S["error"]) \/ includes(name, S["danger"]) THEN "error"
      ELSE IF includes(name, S["info"]) THEN "info"
      ELSE "info"

\* The text of the first child whose name contains `type` and whose text is
\* truthy; undefined (absent) when there is none or there are no children.
findChildText(n, type) ==
  IF n.children = <<>> THEN <<>>
  ELSE LET kids == n.children[1]
           hit(i) == includes(lname(kids[i]), type) /\ truthy(kids[i].text)
           found == {i \in 1..Len(kids) : hit(i)}
       IN  IF found = {} THEN <<>>
           ELSE kids[CHOOSE i \in found : \A j \in found : i <= j].text

\* Variant: the children of type TEXT alone.
extractTabItems_typeOnly(n) ==
  IF n.children = <<>> THEN <<>>
  ELSE LET kept == SelectSeq(n.children[1], LAMBDA c : c.type = "TEXT")
       IN  [i \in 1..Len(kept) |->
              [label    |-> orElse(kept[i].text, kept[i].name),
               isActive |-> includes(lname(kept[i]), S["active"])]]

extractTabItems(n) ==
  IF n.children = <<>> THEN <<>>
  ELSE LET kept == SelectSeq(n.children[1],
                             LAMBDA c : c.type = "TEXT" \/ truthy(c.text))
       IN  [i \in 1..Len(kept) |->
              [label    |-> orElse(kept[i].text, kept[i].name),
               isActive |-> includes(lname(kept[i]), S["active"])]]

extractDropdownItems(n) ==
  IF n.children = <<>>
  THEN << [label |-> S["ko:opsyeon 1"], value |-> S["1"]],
          [label |-> S["ko:opsyeon 2"], value |-> S["2"]] >>
  ELSE LET kept == SelectSeq(n.children[1], LAMBDA c : truthy(c.text))
       IN  [i \in 1..Len(kept) |->
              [label |-> orElse(kept[i].text, S["ko:opsyeon "] \o toDecimal(i)),
               value |-> toDecimal(i)]]

inferTagColor(n) ==
  LET name == lname(n)
  IN  IF includes(name, S["success"]) \/ includes(name, S["green"]) THEN "success"
      ELSE IF includes(name, S["warning"]) \/ includes(name, S["yellow"]) THEN "warning"
      ELSE IF includes(name, S["error"]) \/ includes(name, S["red"]) THEN "error"
      ELSE IF includes(name, S["info"]) \/ includes(name, S["blue"]) THEN "info"
      ELSE IF includes(name, S["primary"]) THEN "primary"
      ELSE "gray"

inferIconColor(n) ==
  LET name == lname(n)
  IN  IF includes(name, S["primary"]) \/ includes(name, S["red"]) THEN "primary"
      ELSE IF includes(name, S["success"]) \/ includes(name, S["green"]) THEN "success"
      ELSE IF includes(name, S["warning"]) \/ includes(name, S["yellow"]) THEN "warning"
      ELSE IF includes(name, S["error"]) \/ includes(name, S["danger"]) THEN "error"
      ELSE IF includes(name, S["info"]) \/ includes(name, S["blue"]) THEN "info"
      ELSE "gray"

-----------------------------------------------------------------------------
(* NCDS_COMPONENT_RULES: one condition and one mapper per rule, in the     *)
(* order of the source.                                                    *)

\* Variant: a Button rule that looks at the name of an INSTANCE as it does for a FRAME.
ButtonCondition_byNameOnly(n) ==
  LET name == lname(n)
  IN  /\ n.type \in {"INSTANCE", "FRAME"}
      /\ \/ includes(name, S["button"]) \/ includes(name, S["btn"])
         \/ includes(name, S["click"]) \/ includes(name, S["submit"])

ButtonCondition(n) ==
  LET name == lname(n)
  IN  \/ n.type = "INSTANCE"
      \/ /\ n.type = "FRAME"
         /\ \/ includes(name, S["button"]) \/ includes(name, S["btn"])
            \/ includes(name, S["click"]) \/ includes(name, S["submit"])

\* Variant: the label taken from the name, whatever the text.
ButtonMapper_nameLabel(n) ==
  [component |-> "Button",
   props |-> [label |-> n.name, hierarchy |-> inferButtonTheme(n), size |-> inferSize(n),
              disabled |-> includes(lname(n), S["disabled"])],
   htmlTag |-> "button",
   className |-> "ncua-btn"]

ButtonMapper(n) ==
  [component |-> "Button",
   props |-> [label     |-> orElse(n.text, n.name),
              hierarchy |-> inferButtonTheme(n),
              size      |-> inferSize(n),
              disabled  |-> includes(lname(n), S["disabled"])],
   htmlTag |-> "button",
   className |-> "ncua-btn"]

InputCondition(n) ==
  LET name == lname(n)
  IN  /\ n.type = "FRAME"
      /\ \/ includes(name, S["input"]) \/ includes(name, S["field"])
         \/ (includes(name, S["text"]) /\ ~includes(name, S["label"]))

InputMapper(n) ==
  [component |-> "InputBase",
   props |-> [placeholder |-> orElse(n.text, S["Enter text..."]),
              size        |-> inferSize(n),
              disabled    |-> includes(lname(n), S["disabled"]),
              required    |-> includes(lname(n), S["required"])],
   htmlTag |-> "input",
   className |-> "ncua-input"]

CheckboxCondition(n) ==
  LET name == lname(n)
  IN  /\ n.type = "FRAME"
      /\ (includes(name, S["checkbox"]) \/ includes(name, S["check"]))

\* Variant: a mapper that reads the checked state and not the disabled one.
CheckboxMapper_enabled(n) ==
  [component |-> "Checkbox",
   props |-> [label |-> orElse(n.text, n.name), checked |-> includes(lname(n), S["checked"]),
              disabled |-> FALSE],
   htmlTag |-> "label",
   className |-> "ncua-checkbox"]

CheckboxMapper(n) ==
  [component |-> "Checkbox",
   props |-> [label    |-> orElse(n.text, n.name),
              checked  |-> includes(lname(n), S["checked"]),
              disabled |-> includes(lname(n), S["disabled"])],
   htmlTag |-> "label",
   className |-> "ncua-checkbox"]

RadioCondition(n) ==
  LET name == lname(n)
  IN  n.type = "FRAME" /\ includes(name, S["radio"])

RadioMapper(n) ==
  [component |-> "Radio",
   props |-> [label    |-> orElse(n.text, n.name),
              checked  |-> includes(lname(n), S["selected"]),
              disabled |-> includes(lname(n), S["disabled"])],
   htmlTag |-> "label",
   className |-> "ncua-radio"]

\* Variant: a Select rule that leaves the names with "dropdown" to the Dropdown rule.
SelectCondition_notDropdown(n) ==
  LET name == lname(n)
  IN  /\ n.type = "FRAME"
      /\ (includes(name, S["select"]) \/ includes(name, S["combo"]))
      /\ ~includes(name, S["dropdown"])

SelectCondition(n) ==
  LET name == lname(n)
  IN  /\ n.type = "FRAME"
      /\ \/ includes(name, S["select"]) \/ includes(name, S["dropdown"])
         \/ includes(name, S["combo"])

SelectMapper(n) ==
  [component |-> "Select",
   props |-> [placeholder |-> orElse(n.text, S["Select an option"]),
              size        |-> inferSize(n),
              disabled    |-> includes(lname(n), S["disabled"])],
   htmlTag |-> "select",
   className |-> "ncua-select"]

BadgeCondition(n) ==
  LET name == lname(n)
  IN  /\ (n.type = "FRAME" \/ n.type = "TEXT")
      /\ \/ includes(name, S["badge"]) \/ includes(name, S["tag"])
         \/ includes(name, S["chip"])

BadgeMapper(n) ==
  [component |-> "Badge",
   props |-> [label |-> orElse(n.text, n.name),
              color |-> inferBadgeColor(n),
              size  |-> inferSize(n)],
   htmlTag |-> "span",
   className |-> "ncua-badge"]

ModalCondition(n) ==
  LET name == lname(n)
  IN  /\ n.type = "FRAME"
      /\ \/ includes(name, S["modal"]) \/ includes(name, S["dialog"])
         \/ includes(name, S["popup"])

ModalMapper(n) ==
  [component |-> "Modal",
   props |-> [isOpen |-> TRUE,
              title  |-> orElse(findChildText(n, S["title"]), S["Modal Title"])],
   htmlTag |-> "div",
   className |-> "ncua-modal"]

\* Variant: a Tab rule without the exclusion of "table".
TabCondition_anyTab(n) ==
  LET name == lname(n)
  IN  /\ n.type = "FRAME"
      /\ includes(name, S["tab"])

TabCondition(n) ==
  LET name == lname(n)
  IN  /\ n.type = "FRAME"
      /\ (includes(name, S["tab"]) /\ ~includes(name, S["table"]))

\* Variant: a mapper that names its kind after its rule.
TabMapper_ruleName(n) ==
  [component |-> "Tab",
   props |-> [tabs |-> extractTabItems(n)],
   htmlTag |-> "div",
   className |-> "ncua-tab"]

TabMapper(n) ==
  [component |-> "HorizontalTab",
   props |-> [tabs |-> extractTabItems(n)],
   htmlTag |-> "div",
   className |-> "ncua-tab"]

PaginationCondition(n) ==
  LET name == lname(n)
  IN  /\ n.type = "FRAME"
      /\ (includes(name, S["pagination"]) \/ includes(name, S["pager"]))

PaginationMapper(n) ==
  [component |-> "Pagination",
   props |-> [currentPage |-> 1, totalPages |-> 10, size |-> inferSize(n)],
   htmlTag |-> "nav",
   className |-> "ncua-pagination"]

ProgressBarCondition(n) ==
  LET name == lname(n)
  IN  /\ n.type = "FRAME"
      /\ (includes(name, S["progress"]) /\ includes(name, S["bar"]))

ProgressBarMapper(n) ==
  [component |-> "ProgressBar",
   props |-> [progress |-> 50, size |-> inferSize(n)],
   htmlTag |-> "div",
   className |-> "ncua-progress-bar"]

NotificationCondition(n) ==
  LET name == lname(n)
  IN  /\ n.type = "FRAME"
      /\ \/ includes(name, S["notification"]) \/ includes(name, S["alert"])
         \/ includes(name, S["toast"])

NotificationMapper(n) ==
  [component |-> "Notification",
   props |-> [title       |-> orElse(findChildText(n, S["title"]), S["Notification"]),
              description |-> orOpt(findChildText(n, S["description"]), n.text),
              type        |-> inferNotificationType(n)],
   htmlTag |-> "div",
   className |-> "ncua-notification"]

VerticalTabCondition(n) ==
  LET name == lname(n)
  IN  /\ n.type = "FRAME"
      /\ (includes(name, S["vertical"]) /\ includes(name, S["tab"]))

VerticalTabMapper(n) ==
  [component |-> "VerticalTab",
   props |-> [tabs |-> extractTabItems(n), type |-> "button-primary"],
   htmlTag |-> "div",
   className |-> "ncua-vertical-tab"]

ProgressCircleCondition(n) ==
  LET name == lname(n)
  IN  /\ n.type = "FRAME"
      /\ /\ includes(name, S["progress"])
         /\ (includes(name, S["circle"]) \/ includes(name, S["circular"]))

ProgressCircleMapper(n) ==
  [component |-> "ProgressCircle",
   props |-> [progress |-> 50, size |-> inferSize(n)],
   htmlTag |-> "div",
   className |-> "ncua-progress-circle"]

SpinnerCondition(n) ==
  LET name == lname(n)
  IN  /\ n.type = "FRAME"
      /\ \/ includes(name, S["spinner"]) \/ includes(name, S["loading"])
         \/ includes(name, S["loader"])

SpinnerMapper(n) ==
  [component |-> "Spinner",
   props |-> [size |-> inferSize(n), text |-> n.text],
   htmlTag |-> "div",
   className |-> "ncua-spinner"]

TagCondition(n) ==
  LET name == lname(n)
  IN  /\ (n.type = "FRAME" \/ n.type = "TEXT")
      /\ (includes(name, S["tag"]) /\ ~includes(name, S["stage"]))

TagMapper(n) ==
  [component |-> "Tag",
   props |-> [label |-> orElse(n.text, n.name),
              color |-> inferTagColor(n),
              size  |-> inferSize(n)],
   htmlTag |-> "span",
   className |-> "ncua-tag"]

ToggleCondition(n) ==
  LET name == lname(n)
  IN  /\ n.type = "FRAME"
      /\ (includes(name, S["toggle"]) \/ includes(name, S["switch"]))

ToggleMapper(n) ==
  [component |-> "Toggle",
   props |-> [checked  |-> includes(lname(n), S["on"]),
              disabled |-> includes(lname(n), S["disabled"]),
              size     |-> inferSize(n),
              text     |-> n.text],
   htmlTag |-> "label",
   className |-> "ncua-toggle"]

TooltipCondition(n) ==
  LET name == lname(n)
  IN  n.type = "FRAME" /\ includes(name, S["tooltip"])

TooltipMapper(n) ==
  [component |-> "Tooltip",
   props |-> [title    |-> orOpt(findChildText(n, S["title"]), n.text),
              position |-> "top"],
   htmlTag |-> "span",
   className |-> "ncua-tooltip"]

SliderCondition(n) ==
  LET name == lname(n)
  IN  /\ n.type = "FRAME"
      /\ (includes(name, S["slider"]) \/ includes(name, S["range"]))

SliderMapper(n) ==
  [component |-> "Slider",
   props |-> [value |-> 50, min |-> 0, max |-> 100, size |-> inferSize(n)],
   htmlTag |-> "div",
   className |-> "ncua-slider"]

BreadCrumbCondition(n) ==
  LET name == lname(n)
  IN  /\ n.type = "FRAME"
      /\ (includes(name, S["breadcrumb"]) \/ includes(name, S["bread"]))

BreadCrumbMapper(n) ==
  [component |-> "BreadCrumb",
   props |-> [items |-> << [label |-> S["Home"],    href |-> S["/"]],
                           [label |-> S["Current"], href |-> S["#"]] >>],
   htmlTag |-> "nav",
   className |-> "ncua-breadcrumb"]

DividerCondition(n) ==
  LET name == lname(n)
  IN  /\ (n.type = "FRAME" \/ n.type = "LINE")
      /\ \/ includes(name, S["divider"]) \/ includes(name, S["separator"])
         \/ includes(name, S["line"])

\* node.layout?.width > node.layout?.height is false when the layout is absent.
DividerMapper(n) ==
  [component |-> "Divider",
   props |-> [orientation |-> IF n.layout # <<>> /\ n.layout[1].width > n.layout[1].height
                              THEN "horizontal" ELSE "vertical",
              text        |-> n.text],
   htmlTag |-> "hr",
   className |-> "ncua-divider"]

DropdownCondition(n) ==
  LET name == lname(n)
  IN  /\ n.type = "FRAME"
      /\ (includes(name, S["dropdown"]) /\ ~includes(name, S["select"]))

DropdownMapper(n) ==
  [component |-> "Dropdown",
   props |-> [label |-> orElse(n.text, S["Dropdown"]),
              items |-> extractDropdownItems(n)],
   htmlTag |-> "div",
   className |-> "ncua-dropdown"]

EmptyStateCondition(n) ==
  LET name == lname(n)
  IN  /\ n.type = "FRAME"
      /\ \/ includes(name, S["empty"]) \/ includes(name, S["no-data"])
         \/ includes(name, S["no-result"])

EmptyStateMapper(n) ==
  [component |-> "EmptyState",
   props |-> [title       |-> orElse(findChildText(n, S["title"]), S["No Data"]),
              description |-> orOpt(findChildText(n, S["description"]), n.text)],
   htmlTag |-> "div",
   className |-> "ncua-empty-state"]

FeaturedIconCondition(n) ==
  LET name == lname(n)
  IN  /\ (n.type = "FRAME" \/ n.type = "COMPONENT")
      /\ (includes(name, S["icon"]) \/ includes(name, S["featured"]))

FeaturedIconMapper(n) ==
  [component |-> "FeaturedIcon",
   props |-> [name  |-> "star",
              size  |-> inferSize(n),
              color |-> inferIconColor(n),
              theme |-> "light"],
   htmlTag |-> "div",
   className |-> "ncua-featured-icon"]

\* The rule table as data: the rules by name, in the order of the array literal.
NCDS_COMPONENT_RULES ==
  << [rule |-> "Button"], [rule |-> "Input"], [rule |-> "Checkbox"], [rule |-> "Radio"],
     [rule |-> "Select"], [rule |-> "Badge"], [rule |-> "Modal"], [rule |-> "Tab"],
     [rule |-> "Pagination"], [rule |-> "ProgressBar"], [rule |-> "Notification"],
     [rule |-> "VerticalTab"], [rule |-> "ProgressCircle"], [rule |-> "Spinner"],
     [rule |-> "Tag"], [rule |-> "Toggle"], [rule |-> "Tooltip"], [rule |-> "Slider"],
     [rule |-> "BreadCrumb"], [rule |-> "Divider"], [rule |-> "Dropdown"],
     [rule |-> "EmptyState"], [rule |-> "FeaturedIcon"] >>

\* rule.condition(node)
condition(r, n) ==
  CASE r.rule = "Button"         -> ButtonCondition(n)
    [] r.rule = "Input"          -> InputCondition(n)
    [] r.rule = "Checkbox"       -> CheckboxCondition(n)
    [] r.rule = "Radio"          -> RadioCondition(n)
    [] r.rule = "Select"         -> SelectCondition(n)
    [] r.rule = "Badge"          -> BadgeCondition(n)
    [] r.rule = "Modal"          -> ModalCondition(n)
    [] r.rule = "Tab"            -> TabCondition(n)
    [] r.rule = "Pagination"     -> PaginationCondition(n)
    [] r.rule = "ProgressBar"    -> ProgressBarCondition(n)
    [] r.rule = "Notification"   -> NotificationCondition(n)
    [] r.rule = "VerticalTab"    -> VerticalTabCondition(n)
    [] r.rule = "ProgressCircle" -> ProgressCircleCondition(n)
    [] r.rule = "Spinner"        -> SpinnerCondition(n)
    [] r.rule = "Tag"            -> TagCondition(n)
    [] r.rule = "Toggle"         -> ToggleCondition(n)
    [] r.rule = "Tooltip"        -> TooltipCondition(n)
    [] r.rule = "Slider"         -> SliderCondition(n)
    [] r.rule = "BreadCrumb"     -> BreadCrumbCondition(n)
    [] r.rule = "Divider"        -> DividerCondition(n)
    [] r.rule = "Dropdown"       -> DropdownCondition(n)
    [] r.rule = "EmptyState"     -> EmptyStateCondition(n)
    [] r.rule = "FeaturedIcon"   -> FeaturedIconCondition(n)
    [] r.rule = "pushed"         -> n.type = r.type /\ includes(lname(n), r.word)

\* rule.mapper(node)
mapper(r, n) ==
  CASE r.rule = "Button"         -> ButtonMapper(n)
    [] r.rule = "Input"          -> InputMapper(n)
    [] r.rule = "Checkbox"       -> CheckboxMapper(n)
    [] r.rule = "Radio"          -> RadioMapper(n)
    [] r.rule = "Select"         -> SelectMapper(n)
    [] r.rule = "Badge"          -> BadgeMapper(n)
    [] r.rule = "Modal"          -> ModalMapper(n)
    [] r.rule = "Tab"            -> TabMapper(n)
    [] r.rule = "Pagination"     -> PaginationMapper(n)
    [] r.rule = "ProgressBar"    -> ProgressBarMapper(n)
    [] r.rule = "Notification"   -> NotificationMapper(n)
    [] r.rule = "VerticalTab"    -> VerticalTabMapper(n)
    [] r.rule = "ProgressCircle" -> ProgressCircleMapper(n)
    [] r.rule = "Spinner"        -> SpinnerMapper(n)
    [] r.rule = "Tag"            -> TagMapper(n)
    [] r.rule = "Toggle"         -> ToggleMapper(n)
    [] r.rule = "Tooltip"        -> TooltipMapper(n)
    [] r.rule = "Slider"         -> SliderMapper(n)
    [] r.rule = "BreadCrumb"     -> BreadCrumbMapper(n)
    [] r.rule = "Divider"        -> DividerMapper(n)
    [] r.rule = "Dropdown"       -> DropdownMapper(n)
    [] r.rule = "EmptyState"     -> EmptyStateMapper(n)
    [] r.rule = "FeaturedIcon"   -> FeaturedIconMapper(n)
    [] r.rule = "pushed"         ->
         [component |-> r.component, props |-> [label |-> orElse(n.text, n.name)],
          htmlTag |-> "div", className |-> "ncua-card"]

\* The for-of loop of mapToNcdsComponent, from position i of the table.
\* Variant: a scan that goes on after a match, so that the last matching rule wins.
RECURSIVE lastMatchFrom(_, _, _)
lastMatchFrom(table, i, n) ==
  IF i > Len(table) THEN null
  ELSE LET later == lastMatchFrom(table, i + 1, n)
       IN  IF later # null THEN later
           ELSE IF condition(table[i], n) THEN mapper(table[i], n)
           ELSE null

RECURSIVE firstMatchFrom(_, _, _)
firstMatchFrom(table, i, n) ==
  IF i > Len(table) THEN null
  ELSE IF condition(table[i], n) THEN mapper(table[i], n)
  ELSE firstMatchFrom(table, i + 1, n)

mapToNcdsComponent(n) == firstMatchFrom(rules, 1, n)

validComponents ==
  << "Button", "InputBase", "Checkbox", "Radio", "Select", "Badge", "Modal",
     "HorizontalTab", "VerticalTab", "Pagination", "ProgressBar", "ProgressCircle",
     "Notification", "Spinner", "Tag", "Tooltip", "Slider", "Toggle",
     "BreadCrumb", "Divider", "Dropdown", "EmptyState", "FeaturedIcon" >>

\* Variant: a validator that only asks for a component name.
validateNcdsMapping_anyName(m) == m.component # ""

validateNcdsMapping(m) ==
  \E i \in 1..Len(validComponents) : validComponents[i] = m.component

-----------------------------------------------------------------------------
(* NcdsHtmlGenerator: helpers of the rendering. *)

\* Reading props.f in a template: absent keys and falsy values give the default.
pStr(props, f, d) == IF f \in DOMAIN props /\ props[f] # "" THEN props[f] ELSE d
pSeq(props, f)    == IF f \in DOMAIN props THEN props[f] ELSE <<>>
pOpt(props, f)    == IF f \in DOMAIN props /\ truthy(props[f]) THEN props[f][1] ELSE <<>>
pBool(props, f)   == IF f \in DOMAIN props THEN props[f] ELSE FALSE
pNum(props, f, d) == IF f \in DOMAIN props /\ props[f] # 0 THEN props[f] ELSE d

\* a || b on strings (sequences): the first non-empty one.
firstOf(a, b) == IF a # <<>> THEN a ELSE b

\* `${id ? ` id="${id}"` : ''}`
idAttr(id) == IF id # <<>> THEN <<" id=\"">> \o id \o <<"\"">> ELSE <<>>

\* `${n}` for a number (negative numbers print with a minus sign).
numText(k) == IF k < 0 THEN <<"-">> \o toDecimal(0 - k) ELSE toDecimal(k)

AlnumChars ==
  {"a","b","c","d","e","f","g","h","i","j","k","l","m","n","o","p","q","r","s","t",
   "u","v","w","x","y","z","0","1","2","3","4","5","6","7","8","9"}

\* Variant: the runs of underscores are left as they are.
collapseUnderscores_keep(s) == s

\* .replace(/_+/g, '_'): every maximal run of underscores becomes one.
RECURSIVE collapseUnderscores(_)
collapseUnderscores(s) ==
  IF Len(s) < 2 THEN s
  ELSE IF s[1] = "_" /\ s[2] = "_" THEN collapseUnderscores(Tail(s))
  ELSE <<s[1]>> \o collapseUnderscores(Tail(s))

\* .replace(/^_|_$/g, ''): one leading and one trailing underscore are removed.
stripEdgeUnderscores(s) ==
  LET a == IF s # <<>> /\ s[1] = "_" THEN Tail(s) ELSE s
  IN  IF a # <<>> /\ a[Len(a)] = "_" THEN SubSeq(a, 1, Len(a) - 1) ELSE a

toPhpNaming(name) ==
  LET lower    == toLowerCase(name)
      replaced == [i \in 1..Len(lower) |-> IF lower[i] \in AlnumChars THEN lower[i] ELSE "_"]
  IN  stripEdgeUnderscores(collapseUnderscores(replaced))

generateId(n) == IF options.phpNamingConvention THEN toPhpNaming(n.name) ELSE n.id

generateClassName(m) ==
  LET sizeClass  == IF pStr(m.props, "size", "") # ""
                    THEN <<" ", m.className, "--", m.props.size>> ELSE <<>>
      themeClass == IF pStr(m.props, "hierarchy", "") # ""
                    THEN <<" ", m.className, "--", m.props.hierarchy>> ELSE <<>>
  IN  <<m.className>> \o sizeClass \o themeClass

generateNcdsProps(props) == props

\* Variant: a block container for every kind.
getHtmlTag_div(n) == "div"

getHtmlTag(n) ==
  CASE n.type = "TEXT" -> "span"
    [] n.type = "FRAME" -> "div"
    [] n.type = "GROUP" -> "div"
    [] n.type = "RECTANGLE" -> "div"
    [] n.type = "ELLIPSE" -> "div"
    [] n.type = "IMAGE" -> "img"
    [] OTHER -> "div"

\* node.type.toLowerCase(): node kinds are enumerated, upper-case identifiers.
lowerType(t) ==
  CASE t = "TEXT" -> "text" [] t = "FRAME" -> "frame" [] t = "GROUP" -> "group"
    [] t = "RECTANGLE" -> "rectangle" [] t = "ELLIPSE" -> "ellipse"
    [] t = "IMAGE" -> "image" [] t = "INSTANCE" -> "instance"
    [] t = "COMPONENT" -> "component" [] t = "LINE" -> "line"
    [] t = "VECTOR" -> "vector"

generateRegularClassName(n) == <<"figma-", lowerType(n.type)>>

\* opacity and borderRadius are kept as the text they print as.
generateInlineStyles(n) ==
  LET o == IF n.opacity # <<>> /\ n.opacity[1] # "1"
           THEN << <<"opacity: ", n.opacity[1]>> >> ELSE <<>>
      b == IF n.borderRadius # <<>> /\ n.borderRadius[1] # ""
           THEN << <<"border-radius: ", n.borderRadius[1]>> >> ELSE <<>>
      styles == o \o b
  IN  IF Len(styles) = 0 THEN <<>>
      ELSE IF Len(styles) = 1 THEN styles[1]
      ELSE styles[1] \o <<"; ">> \o styles[2]

\* html.trim() !== '': some element is not white space.  Literal chunks of the
\* templates always hold a tag; only these elements are blank.
WhiteSpace == {" ", "\n", "\t", "\r", ""}

isBlank(html) == \A i \in 1..Len(html) : html[i] \in WhiteSpace

\* Array.prototype.join('\n') over fragments.
RECURSIVE joinLines(_)
joinLines(frags) ==
  IF frags = <<>> THEN <<>>
  ELSE IF Len(frags) = 1 THEN frags[1]
  ELSE frags[1] \o <<"\n">> \o joinLines(Tail(frags))

\* Array.prototype.join(sep) over fragments.
RECURSIVE joinWith(_, _)
joinWith(frags, sep) ==
  IF frags = <<>> THEN <<>>
  ELSE IF Len(frags) = 1 THEN frags[1]
  ELSE frags[1] \o <<sep>> \o joinWith(Tail(frags), sep)

\* Array.prototype.join('') over fragments.
RECURSIVE concatAll(_)
concatAll(frags) == IF frags = <<>> THEN <<>> ELSE frags[1] \o concatAll(Tail(frags))

-----------------------------------------------------------------------------
(* Widget templates.  Each returns the markup for one node.                *)

generateButtonHtml(id, className, props, children, n) ==
  LET type      == pStr(props, "type", "button")
      size      == pStr(props, "size", "xs")
      hierarchy == pStr(props, "hierarchy", "primary")
      disabled  == IF pBool(props, "disabled") THEN <<" disabled">> ELSE <<>>
      content   == firstOf(pSeq(props, "label"),
                     firstOf(children, firstOf(orElse(n.text, <<>>), S["Button"])))
      labelled  == <<"<span class=\"ncua-btn__label\">">> \o content \o <<"</span>">>
      lead      == IF pSeq(props, "leadingIcon") # <<>>
                   THEN <<"<i class=\"ncua-icon\">">> \o props.leadingIcon \o <<"</i>">>
                   ELSE <<>>
      trail     == IF pSeq(props, "trailingIcon") # <<>>
                   THEN <<"<i class=\"ncua-icon\">">> \o props.trailingIcon \o <<"</i>">>
                   ELSE <<>>
  IN  <<"<button">> \o idAttr(id)
        \o <<" class=\"ncua-btn ncua-btn--", hierarchy, " ncua-btn--", size,
             "\" type=\"", type, "\"">> \o disabled \o <<">">>
        \o lead \o labelled \o trail \o <<"</button>">>

generateInputHtml(id, className, props, n) ==
  LET type        == pStr(props, "type", "text")
      size        == pStr(props, "size", "xs")
      placeholder == firstOf(pSeq(props, "placeholder"), S["ko:tegseuteu"])
      required    == IF pBool(props, "required") THEN <<" required">> ELSE <<>>
      disabled    == IF pBool(props, "disabled") THEN <<" disabled">> ELSE <<>>
      value       == IF pSeq(props, "value") # <<>>
                     THEN <<" value=\"">> \o props.value \o <<"\"">> ELSE <<>>
  IN  <<"\n<div class=\"ncua-input ncua-input--", size,
        "\">\n  <div class=\"ncua-input__content\">\n    <div class=\"ncua-input__field ncua-input__field--",
        size, "\">\n      <input">> \o idAttr(id)
        \o <<" placeholder=\"">> \o placeholder \o <<"\" type=\"", type, "\"">>
        \o value \o required \o disabled
        \o <<" />\n    </div>\n  </div>\n</div>">>

generateCheckboxHtml(id, className, props, n) ==
  LET checked  == IF pBool(props, "checked") THEN <<" checked">> ELSE <<>>
      disabled == IF pBool(props, "disabled") THEN <<" disabled">> ELSE <<>>
      size     == pStr(props, "size", "xs")
      label    == firstOf(pSeq(props, "label"), firstOf(orElse(n.text, <<>>), S["Checkbox"]))
  IN  <<"\n<label class=\"ncua-checkbox-field ncua-checkbox-field--", size>>
        \o (IF label # <<>> THEN <<" has-text">> ELSE <<>>)
        \o <<"\">\n  <span class=\"ncua-checkbox-input ncua-checkbox-input--", size>>
        \o (IF disabled # <<>> THEN <<" is-disabled">> ELSE <<>>)
        \o <<"\">\n    <input">> \o idAttr(id)
        \o <<" class=\"ncua-checkbox-field__input\" type=\"checkbox\"">>
        \o checked \o disabled
        \o <<" />\n    <span class=\"ncua-checkbox-input__ico\"></span>\n  </span>\n  ">>
        \o (IF label # <<>>
            THEN <<"<span><span class=\"ncua-checkbox-field__text\">">> \o label
                   \o <<"</span></span>">>
            ELSE <<>>)
        \o <<"\n</label>">>

generateRadioHtml(id, className, props, n) ==
  LET checked  == IF pBool(props, "checked") THEN <<" checked">> ELSE <<>>
      disabled == IF pBool(props, "disabled") THEN <<" disabled">> ELSE <<>>
      size     == pStr(props, "size", "xs")
      name     == pStr(props, "name", "radio-group")
      label    == firstOf(pSeq(props, "label"), firstOf(orElse(n.text, <<>>), S["Radio"]))
  IN  <<"\n<label class=\"ncua-radio-field ncua-radio-field--", size>>
        \o (IF label # <<>> THEN <<" has-text">> ELSE <<>>)
        \o <<"\">\n  <span class=\"ncua-radio-input ncua-radio-input--", size>>
        \o (IF disabled # <<>> THEN <<" is-disabled">> ELSE <<>>)
        \o <<"\">\n    <input">> \o idAttr(id)
        \o <<" class=\"ncua-radio-field__input\" type=\"radio\" name=\"", name, "\"">>
        \o checked \o disabled
        \o <<" />\n    <span class=\"ncua-radio-input__ico\"></span>\n  </span>\n  ">>
        \o (IF label # <<>>
            THEN <<"<span><span class=\"ncua-radio-field__text\">">> \o label
                   \o <<"</span></span>">>
            ELSE <<>>)
        \o <<"\n</label>">>

\* The forEach over node.children: one option per child with a truthy text, its
\* value the child's own 1-based position among all children.
RECURSIVE selectOptions(_, _)
selectOptions(kids, i) ==
  IF i > Len(kids) THEN <<>>
  ELSE (IF truthy(kids[i].text)
        THEN <<"<option value=\"">> \o numText(i) \o <<"\">">> \o kids[i].text[1]
               \o <<"</option>">>
        ELSE <<>>) \o selectOptions(kids, i + 1)

generateSelectHtml(id, className, props, n) ==
  LET disabled    == IF pBool(props, "disabled") THEN <<" disabled">> ELSE <<>>
      required    == IF pBool(props, "required") THEN <<" required">> ELSE <<>>
      size        == pStr(props, "size", "md")
      placeholder == firstOf(pSeq(props, "placeholder"), S["Select an option"])
      destructive == IF pBool(props, "destructive") THEN <<" destructive">> ELSE <<>>
      options0    == <<"<option value=\"\" selected>">> \o placeholder \o <<"</option>">>
      opts        == options0 \o (IF n.children # <<>> THEN selectOptions(n.children[1], 1)
                                  ELSE <<>>)
  IN  <<"\n<span class=\"ncua-select">> \o destructive
        \o <<"\">\n  <span class=\"ncua-select__content ncua-select--", size,
             "\">\n    <select">> \o idAttr(id)
        \o <<" class=\"ncua-select__tag\"">> \o disabled \o required \o <<">\n      ">>
        \o opts \o <<"\n    </select>\n  </span>\n</span>">>

generateBadgeHtml(id, className, props, n) ==
  LET label == firstOf(pSeq(props, "label"), firstOf(orElse(n.text, <<>>), S["Badge"]))
      type  == pStr(props, "type", "filled")
      color == pStr(props, "color", "gray")
      size  == pStr(props, "size", "md")
  IN  <<"\n<span">> \o idAttr(id)
        \o <<" class=\"ncua-badge ncua-badge--", type, " ncua-badge--", color,
             " ncua-badge--", size, "\">\n  <span class=\"ncua-badge__label\">">>
        \o label \o <<"</span>\n</span>">>

generateModalHtml(id, className, props, children, n) ==
  LET title    == firstOf(pSeq(props, "title"), S["Modal Title"])
      subtitle == pSeq(props, "subtitle")
      content  == firstOf(children, firstOf(orElse(n.text, <<>>), S["Modal content"]))
      size     == pStr(props, "size", "md")
  IN  <<"\n<div">> \o idAttr(id)
        \o <<" class=\"ncua-modal-backdrop\">\n  <div class=\"ncua-modal ncua-modal--", size,
             "\">\n    <div class=\"ncua-modal__header ncua-modal__header--left ncua-modal__header--close-button\">\n      <div class=\"ncua-modal__title\">\n        <div class=\"ncua-modal__title-text\">">>
        \o title \o <<"</div>\n        ">>
        \o (IF subtitle # <<>>
            THEN <<"<div class=\"ncua-modal__title-subtitle\">">> \o subtitle \o <<"</div>">>
            ELSE <<>>)
        \o <<"\n      </div>\n      <button class=\"ncua-modal__close-button\" type=\"button\">&times;</button>\n    </div>\n    <div class=\"ncua-modal__header-divider\"></div>\n    <div class=\"ncua-modal__content\">\n      ">>
        \o content
        \o <<"\n    </div>\n    <div class=\"ncua-modal__actions-divider\"></div>\n    <div class=\"ncua-modal__actions-wrapper\">\n      <div class=\"ncua-modal__actions ncua-modal__actions--horizontal ncua-modal__actions--right\">\n        <button class=\"ncua-btn ncua-btn--secondary-gray ncua-btn--sm\" type=\"button\">\n          <span class=\"ncua-btn__label\">ko:chwiso</span>\n        </button>\n        <button class=\"ncua-btn ncua-btn--primary ncua-btn--sm\" type=\"button\">\n          <span class=\"ncua-btn__label\">ko:hwagin</span>\n        </button>\n      </div>\n    </div>\n  </div>\n</div>">>

\* The default item lists of the tab templates (used when props.tabs is absent).
DefaultTabs ==
  << [label |-> S["ko:taeb 1"], isActive |-> TRUE],
     [label |-> S["ko:taeb 2"], isActive |-> FALSE] >>

generateTabHtml(id, className, props, n) ==
  LET tabs      == IF "tabs" \in DOMAIN props THEN props.tabs ELSE DefaultTabs
      type      == pStr(props, "type", "button-primary")
      size      == pStr(props, "size", "sm")
      fullWidth == pBool(props, "fullWidth")
      button(i) ==
        <<"\n        <div class=\"swiper-slide\">\n          <button class=\"ncua-tab-button ncua-tab-button--",
          type, " ncua-tab-button--", size>>
          \o (IF tabs[i].isActive THEN <<" is-active">> ELSE <<>>)
          \o <<"\" data-tab=\"">> \o numText(i - 1)
          \o <<"\">\n            <span class=\"ncua-tab-button__label\">">>
          \o tabs[i].label \o <<"</span>\n          </button>\n        </div>">>
      tabButtons == concatAll([i \in 1..Len(tabs) |-> button(i)])
  IN  <<"\n<div">> \o idAttr(id)
        \o <<" class=\"ncua-horizontal-tab ncua-horizontal-tab--", type>>
        \o (IF fullWidth THEN <<" ncua-horizontal-tab--fullWidth">> ELSE <<>>)
        \o <<"\">\n  <div class=\"swiper\" style=\"overflow: visible;\">\n    <div class=\"swiper-wrapper\">\n      ">>
        \o tabButtons \o <<"\n    </div>\n  </div>\n</div>">>

generateNotificationHtml(id, className, props, n) ==
  LET title       == firstOf(pSeq(props, "title"), S["Notification"])
      description == firstOf(pOpt(props, "description"), orElse(n.text, <<>>))
      color       == pStr(props, "color", "neutral")
  IN  <<"\n<div">> \o idAttr(id)
        \o <<" class=\"ncua-floating-notification ncua-floating-notification--", color,
             "\" role=\"alert\">\n  <div class=\"ncua-floating-notification__content\">\n    <div class=\"ncua-floating-notification__container\">\n      <div class=\"ncua-floating-notification__text-container\">\n        <div class=\"ncua-floating-notification__title-wrapper\">\n          <span class=\"ncua-floating-notification__title\">">>
        \o title \o <<"</span>\n        </div>\n        ">>
        \o (IF description # <<>>
            THEN <<"<span class=\"ncua-floating-notification__supporting-text\">">>
                   \o description \o <<"</span>">>
            ELSE <<>>)
        \o <<"\n      </div>\n    </div>\n  </div>\n  <button class=\"ncua-floating-notification__close-button\" type=\"button\">&times;</button>\n</div>">>

\* Variant: the upper limit alone, Math.min(props.progress || 0, 100).
clampProgress_noFloor(props) ==
  IF pNum(props, "progress", 0) < 100 THEN pNum(props, "progress", 0) ELSE 100

\* Math.min(Math.max(props.progress || 0, 0), 100)
clampProgress(props) ==
  LET p == pNum(props, "progress", 0)
      lo == IF p > 0 THEN p ELSE 0
  IN  IF lo < 100 THEN lo ELSE 100

generateProgressBarHtml(id, className, props, n) ==
  LET progress  == clampProgress(props)
      label     == pStr(props, "label", "none")
      showValue == pBool(props, "showValue")
  IN  <<"\n<div">> \o idAttr(id)
        \o <<" class=\"ncua-progress-bar ncua-progress-bar-", label,
             "\">\n  <div class=\"ncua-progress-bar__content\">\n    <div class=\"ncua-progress-bar__bar\">\n      <div class=\"ncua-progress-bar__fill\" style=\"width: ">>
        \o numText(progress) \o <<"%\" aria-valuenow=\"">> \o numText(progress)
        \o <<"\" aria-valuemin=\"0\" aria-valuemax=\"100\"></div>\n    </div>\n    ">>
        \o (IF showValue /\ label = "right"
            THEN <<"<span class=\"ncua-progress-bar__label ncua-progress-bar__label-right\">">>
                   \o numText(progress) \o <<"%</span>">>
            ELSE <<>>)
        \o <<"\n  </div>\n  ">>
        \o (IF showValue /\ label = "bottom"
            THEN <<"<span class=\"ncua-progress-bar__label ncua-progress-bar__label-bottom\">">>
                   \o numText(progress) \o <<"%</span>">>
            ELSE <<>>)
        \o <<"\n</div>">>

generatePaginationHtml(id, className, props, n) ==
  LET currentPage == pNum(props, "currentPage", 1)
      totalPages  == pNum(props, "totalPages", 10)
      breakPoint  == pStr(props, "breakPoint", "pc")
      showJump    == totalPages > 5
      start       == IF currentPage - 2 > 1 THEN currentPage - 2 ELSE 1
      end         == IF totalPages < start + 4 THEN totalPages ELSE start + 4
      page(i)     ==
        <<"\n        <li class=\"ncua-pagination__item\">\n          <button class=\"ncua-pagination__page-num">>
          \o (IF i = currentPage THEN <<" is-current">> ELSE <<>>)
          \o <<"\">">> \o numText(i) \o <<"</button>\n        </li>">>
      pages       == concatAll([k \in 1..(IF end >= start THEN end - start + 1 ELSE 0) |->
                                  page(start + k - 1)])
      first       == IF currentPage = 1 THEN <<"disabled">> ELSE <<>>
      last        == IF currentPage = totalPages THEN <<"disabled">> ELSE <<>>
  IN  <<"\n<nav">> \o idAttr(id)
        \o <<" class=\"ncua-pagination ncua-pagination--", breakPoint, "\">\n  ">>
        \o (IF showJump
            THEN <<"\n    <button class=\"ncua-pagination__nav-btn ncua-pagination__nav-btn--first\" ">>
                   \o first
                   \o <<">\n      <span class=\"ncua-pagination__nav-btn-text\">ko:cheoeum</span>\n    </button>\n    <button class=\"ncua-pagination__nav-btn ncua-pagination__nav-btn--prev\" ">>
                   \o first
                   \o <<">\n      <span class=\"ncua-pagination__nav-btn-text\">ko:ijeon</span>\n    </button>">>
            ELSE <<>>)
        \o <<"\n  <ul class=\"ncua-pagination__list\">\n    ">> \o pages
        \o <<"\n  </ul>\n  <p class=\"ncua-pagination__page-info\">\n    <em class=\"ncua-pagination__current-num\">">>
        \o numText(currentPage) \o <<"</em> / ">> \o numText(totalPages) \o <<"\n  </p>\n  ">>
        \o (IF showJump
            THEN <<"\n    <button class=\"ncua-pagination__nav-btn ncua-pagination__nav-btn--next\" ">>
                   \o last
                   \o <<">\n      <span class=\"ncua-pagination__nav-btn-text\">ko:daeum</span>\n    </button>\n    <button class=\"ncua-pagination__nav-btn ncua-pagination__nav-btn--last\" ">>
                   \o last
                   \o <<">\n      <span class=\"ncua-pagination__nav-btn-text\">ko:majimag</span>\n    </button>">>
            ELSE <<>>)
        \o <<"\n</nav>">>

\* The items the mapper produces carry no id, so `${tab.id}` prints undefined.
generateVerticalTabHtml(id, className, props, n) ==
  LET tabs == IF "tabs" \in DOMAIN props THEN props.tabs
              ELSE << [id |-> <<"tab1">>, label |-> S["ko:taeb 1"], isActive |-> TRUE],
                      [id |-> <<"tab2">>, label |-> S["ko:taeb 2"], isActive |-> FALSE] >>
      type == pStr(props, "type", "button-primary")
      breakPoint == pStr(props, "breakPoint", "pc")
      button(i) ==
        <<"\n        <button class=\"ncua-tab-button ncua-tab-button--", type,
          " ncua-tab-button--sm">>
          \o (IF tabs[i].isActive THEN <<" is-active">> ELSE <<>>)
          \o <<"\" data-tab=\"">>
          \o (IF "id" \in DOMAIN tabs[i] THEN tabs[i].id ELSE <<"undefined">>)
          \o <<"\">\n          <span class=\"ncua-tab-button__label\">">>
          \o tabs[i].label \o <<"</span>\n        </button>">>
      tabButtons == concatAll([i \in 1..Len(tabs) |-> button(i)])
  IN  <<"\n<div">> \o idAttr(id)
        \o <<" class=\"ncua-vertical-tab ncua-vertical-tab--", type,
             "\">\n  <div class=\"ncua-vertical-tab__list\">\n    ">>
        \o tabButtons \o <<"\n  </div>\n</div>">>

\* The circle's circumference and dash offset are floating-point products of
\* Math.PI; they are kept as the expressions that compute them.
generateProgressCircleHtml(id, className, props, n) ==
  LET progress    == clampProgress(props)
      size        == pStr(props, "size", "md")
      strokeWidth == pNum(props, "strokeWidth", 4)
      radius      == 50 - strokeWidth
      circumference    == <<"2*PI*">> \o numText(radius)
      strokeDashoffset == circumference \o <<"*(1-">> \o numText(progress) \o <<"/100)">>
  IN  <<"\n<div">> \o idAttr(id)
        \o <<" class=\"ncua-progress-circle ncua-progress-circle--", size,
             "\">\n  <svg class=\"ncua-progress-circle__svg\" viewBox=\"0 0 100 100\">\n    <circle class=\"ncua-progress-circle__bg\" cx=\"50\" cy=\"50\" r=\"">>
        \o numText(radius) \o <<"\" stroke-width=\"">> \o numText(strokeWidth)
        \o <<"\"></circle>\n    <circle class=\"ncua-progress-circle__progress\" cx=\"50\" cy=\"50\" r=\"">>
        \o numText(radius) \o <<"\" stroke-width=\"">> \o numText(strokeWidth)
        \o <<"\" \n            style=\"stroke-dasharray: ">> \o circumference
        \o <<"; stroke-dashoffset: ">> \o strokeDashoffset
        \o <<";\"></circle>\n  </svg>\n  <div class=\"ncua-progress-circle__text\">">>
        \o numText(progress) \o <<"%</div>\n</div>">>

generateSpinnerHtml(id, className, props, n) ==
  LET size     == pStr(props, "size", "md")
      text     == firstOf(pOpt(props, "text"), orElse(n.text, <<>>))
      backdrop == pBool(props, "backdrop")
      spinnerContent ==
        <<"\n<div">> \o idAttr(id)
          \o <<" class=\"ncua-spinner ncua-spinner--", size,
               "\">\n  <div class=\"ncua-spinner__icon\"></div>\n  ">>
          \o (IF text # <<>>
              THEN <<"<p class=\"ncua-spinner__text\">">> \o text \o <<"</p>">>
              ELSE <<>>)
          \o <<"\n</div>">>
  IN  IF backdrop
      THEN <<"\n<div class=\"ncua-spinner-backdrop\">\n  ">> \o spinnerContent \o <<"\n</div>">>
      ELSE spinnerContent

generateTagHtml(id, className, props, n) ==
  LET label     == firstOf(pSeq(props, "label"), firstOf(orElse(n.text, <<>>), S["Tag"]))
      color     == pStr(props, "color", "gray")
      size      == pStr(props, "size", "md")
      removable == pBool(props, "removable")
  IN  <<"\n<span">> \o idAttr(id)
        \o <<" class=\"ncua-tag ncua-tag--", color, " ncua-tag--", size,
             "\">\n  <span class=\"ncua-tag__label\">">> \o label \o <<"</span>\n  ">>
        \o (IF removable
            THEN <<"<button class=\"ncua-tag__remove\" type=\"button\">&times;</button>">>
            ELSE <<>>)
        \o <<"\n</span>">>

generateTooltipHtml(id, className, props, children, n) ==
  LET title       == firstOf(pOpt(props, "title"), S["Tooltip"])
      content     == firstOf(pSeq(props, "content"),
                       firstOf(children, orElse(n.text, <<>>)))
      position    == pStr(props, "position", "top")
      tooltipType == pStr(props, "tooltipType", "dark")
  IN  <<"\n<span">> \o idAttr(id)
        \o <<" class=\"ncua-tooltip ncua-tooltip--", position,
             "\">\n  <span class=\"ncua-tooltip__trigger\">?</span>\n  <span class=\"ncua-tooltip__bg ncua-tooltip__bg--",
             tooltipType, " ncua-tooltip__bg--", position, "\">\n    ">>
        \o (IF title # <<>>
            THEN <<"<span class=\"ncua-tooltip__title\">">> \o title \o <<"</span>">>
            ELSE <<>>)
        \o <<"\n    ">>
        \o (IF content # <<>>
            THEN <<"<span class=\"ncua-tooltip__content\">">> \o content \o <<"</span>">>
            ELSE <<>>)
        \o <<"\n  </span>\n</span>">>

generateSliderHtml(id, className, props, n) ==
  LET value == pNum(props, "value", 50)
      min   == pNum(props, "min", 0)
      max   == pNum(props, "max", 100)
      size  == pStr(props, "size", "md")
  IN  <<"\n<div">> \o idAttr(id)
        \o <<" class=\"ncua-slider ncua-slider--", size,
             "\">\n  <input class=\"ncua-slider__input\" type=\"range\" min=\"">>
        \o numText(min) \o <<"\" max=\"">> \o numText(max) \o <<"\" value=\"">>
        \o numText(value) \o <<"\" />\n</div>">>

generateToggleHtml(id, className, props, n) ==
  LET checked  == pBool(props, "checked")
      disabled == pBool(props, "disabled")
      size     == pStr(props, "size", "md")
      text     == firstOf(pOpt(props, "text"), orElse(n.text, <<>>))
  IN  <<"\n<label class=\"ncua-toggle ncua-toggle--", size>>
        \o (IF disabled THEN <<" is-disabled">> ELSE <<>>)
        \o <<"\">\n  <input">> \o idAttr(id)
        \o <<" class=\"ncua-toggle__input\" type=\"checkbox\"">>
        \o (IF checked THEN <<" checked">> ELSE <<>>)
        \o (IF disabled THEN <<" disabled">> ELSE <<>>)
        \o <<" />\n  <span class=\"ncua-toggle__switch\"></span>\n  ">>
        \o (IF text # <<>>
            THEN <<"<span class=\"ncua-toggle__text\">">> \o text \o <<"</span>">>
            ELSE <<>>)
        \o <<"\n</label>">>

generateBreadcrumbHtml(id, className, props, n) ==
  LET items == IF "items" \in DOMAIN props THEN props.items
               ELSE << [label |-> S["Home"], href |-> S["/"]],
                       [label |-> S["Page"], href |-> S["/page"]] >>
      item(i) ==
        <<"\n        <li class=\"ncua-breadcrumb__item\">\n          ">>
          \o (IF i = Len(items)
              THEN <<"<span class=\"ncua-breadcrumb__current\">">> \o items[i].label
                     \o <<"</span>">>
              ELSE <<"<a class=\"ncua-breadcrumb__link\" href=\"">>
                     \o firstOf(items[i].href, S["#"]) \o <<"\">">> \o items[i].label
                     \o <<"</a>">>)
          \o <<"\n        </li>">>
      breadcrumbItems == concatAll([i \in 1..Len(items) |-> item(i)])
  IN  <<"\n<nav">> \o idAttr(id)
        \o <<" class=\"ncua-breadcrumb\">\n  <ol class=\"ncua-breadcrumb__list\">\n    ">>
        \o breadcrumbItems \o <<"\n  </ol>\n</nav>">>

generateDividerHtml(id, className, props, n) ==
  LET orientation == pStr(props, "orientation", "horizontal")
      text        == firstOf(pOpt(props, "text"), orElse(n.text, <<>>))
  IN  IF text # <<>>
      THEN <<"\n<div">> \o idAttr(id)
             \o <<" class=\"ncua-divider ncua-divider--", orientation,
                  " ncua-divider--text\">\n  <span class=\"ncua-divider__text\">">>
             \o text \o <<"</span>\n</div>">>
      ELSE <<"<hr">> \o idAttr(id)
             \o <<" class=\"ncua-divider ncua-divider--", orientation, "\" />">>

\* An empty array is truthy: props.items || default keeps an empty item list.
generateDropdownHtml(id, className, props, children, n) ==
  LET label == firstOf(pSeq(props, "label"), S["Dropdown"])
      items == IF "items" \in DOMAIN props THEN props.items
               ELSE << [label |-> S["ko:opsyeon 1"], value |-> S["1"]],
                       [label |-> S["ko:opsyeon 2"], value |-> S["2"]] >>
      item(i) ==
        <<"<li class=\"ncua-dropdown__item\">\n        <button class=\"ncua-dropdown__button\" type=\"button\" data-value=\"">>
          \o items[i].value \o <<"\">">> \o items[i].label
          \o <<"</button>\n      </li>">>
      dropdownItems == concatAll([i \in 1..Len(items) |-> item(i)])
  IN  <<"\n<div">> \o idAttr(id)
        \o <<" class=\"ncua-dropdown\">\n  <button class=\"ncua-dropdown__trigger\" type=\"button\">">>
        \o label \o <<"</button>\n  <ul class=\"ncua-dropdown__menu\">\n    ">>
        \o dropdownItems \o <<"\n  </ul>\n</div>">>

generateEmptyStateHtml(id, className, props, children, n) ==
  LET title       == firstOf(pSeq(props, "title"), S["Empty State"])
      description == firstOf(pOpt(props, "description"),
                       firstOf(children, orElse(n.text, <<>>)))
      iconName    == pStr(props, "iconName", "inbox")
  IN  <<"\n<div">> \o idAttr(id)
        \o <<" class=\"ncua-empty-state\">\n  <div class=\"ncua-empty-state__icon\">\n    <svg class=\"ncua-featured-icon ncua-featured-icon--xl ncua-featured-icon--gray-modern\" viewBox=\"0 0 24 24\">\n      <path d=\"M3 3h18v18H3V3z\" stroke=\"currentColor\" fill=\"none\"/>\n    </svg>\n  </div>\n  <div class=\"ncua-empty-state__content\">\n    <h3 class=\"ncua-empty-state__title\">">>
        \o title \o <<"</h3>\n    ">>
        \o (IF description # <<>>
            THEN <<"<p class=\"ncua-empty-state__description\">">> \o description \o <<"</p>">>
            ELSE <<>>)
        \o <<"\n  </div>\n</div>">>

generateFeaturedIconHtml(id, className, props, n) ==
  LET name  == pStr(props, "name", "star")
      size  == pStr(props, "size", "md")
      color == pStr(props, "color", "primary")
      theme == pStr(props, "theme", "light")
  IN  <<"\n<div">> \o idAttr(id)
        \o <<" class=\"ncua-featured-icon ncua-featured-icon--", size,
             " ncua-featured-icon--", color, "-", theme,
             "\">\n  <svg viewBox=\"0 0 24 24\">\n    <path d=\"M12 2l3.09 6.26L22 9.27l-5 4.87 1.18 6.88L12 17.77l-6.18 3.25L7 14.14 2 9.27l6.91-1.01L12 2z\" fill=\"currentColor\"/>\n  </svg>\n</div>">>

generateGenericComponentHtml(m, id, className, props, children) ==
  LET tag == IF m.htmlTag # "" THEN m.htmlTag ELSE "div"
  IN  <<"<", tag, " id=\"">> \o id \o <<"\" class=\"">> \o className \o <<"\">">>
        \o children \o <<"</", tag, ">">>

\* The switch of generateNcdsComponentHtml.
dispatchTemplate(m, id, className, props, children, n) ==
  CASE m.component = "Button"         -> generateButtonHtml(id, className, props, children, n)
    [] m.component = "InputBase"      -> generateInputHtml(id, className, props, n)
    [] m.component = "Checkbox"       -> generateCheckboxHtml(id, className, props, n)
    [] m.component = "Radio"          -> generateRadioHtml(id, className, props, n)
    [] m.component = "Select"         -> generateSelectHtml(id, className, props, n)
    [] m.component = "Badge"          -> generateBadgeHtml(id, className, props, n)
    [] m.component = "Modal"          -> generateModalHtml(id, className, props, children, n)
    [] m.component = "HorizontalTab"  -> generateTabHtml(id, className, props, n)
    [] m.component = "Notification"   -> generateNotificationHtml(id, className, props, n)
    [] m.component = "ProgressBar"    -> generateProgressBarHtml(id, className, props, n)
    [] m.component = "Pagination"     -> generatePaginationHtml(id, className, props, n)
    [] m.component = "VerticalTab"    -> generateVerticalTabHtml(id, className, props, n)
    [] m.component = "ProgressCircle" -> generateProgressCircleHtml(id, className, props, n)
    [] m.component = "Spinner"        -> generateSpinnerHtml(id, className, props, n)
    [] m.component = "Tag"            -> generateTagHtml(id, className, props, n)
    [] m.component = "Tooltip"        -> generateTooltipHtml(id, className, props, children, n)
    [] m.component = "Slider"         -> generateSliderHtml(id, className, props, n)
    [] m.component = "Toggle"         -> generateToggleHtml(id, className, props, n)
    [] m.component = "BreadCrumb"     -> generateBreadcrumbHtml(id, className, props, n)
    [] m.component = "Divider"        -> generateDividerHtml(id, className, props, n)
    [] m.component = "Dropdown"       -> generateDropdownHtml(id, className, props, children, n)
    [] m.component = "EmptyState"     -> generateEmptyStateHtml(id, className, props, children, n)
    [] m.component = "FeaturedIcon"   -> generateFeaturedIconHtml(id, className, props, n)
    [] OTHER -> generateGenericComponentHtml(m, id, className, props, children)

-----------------------------------------------------------------------------
(* NcdsHtmlGenerator: the recursive rendering.  The instance fields        *)
(* usedComponents and componentCounter are threaded through the calls:     *)
(* every operator takes their value on entry and returns the markup with   *)
(* their value on exit, [html, used, counter].                             *)

EmptyCounter == [k \in {} |-> 0]

\* Variant: a list of used components instead of a set.
addUsed_list(used, k) == Append(used, k)

\* this.usedComponents.add(component)
addUsed(used, k) ==
  IF \E i \in 1..Len(used) : used[i] = k THEN used ELSE Append(used, k)

\* Variant: a counter that marks a component as used instead of counting it.
increment_mark(counter, k) ==
  [x \in DOMAIN counter \cup {k} |-> IF x = k THEN 1 ELSE counter[x]]

\* this.componentCounter[component] = (this.componentCounter[component] || 0) + 1
increment(counter, k) ==
  [x \in DOMAIN counter \cup {k} |->
     IF x = k THEN (IF k \in DOMAIN counter THEN counter[k] ELSE 0) + 1 ELSE counter[x]]

RECURSIVE generateNodesHtml(_, _, _)
RECURSIVE generateNodeHtml(_, _, _)
RECURSIVE generateNcdsComponentHtml(_, _, _, _)
RECURSIVE generateRegularHtml(_, _, _)
RECURSIVE generateChildren(_, _, _)
RECURSIVE mapNodes(_, _, _)

\* The fragment of the first node, put in front of the fragments of the others.
consFragment(html, m) ==
  [frags |-> <<html>> \o m.frags, used |-> m.used, counter |-> m.counter]

\* The other nodes are rendered in the state the first node left.
mapRest(h, rest) == consFragment(h.html, mapNodes(rest, h.used, h.counter))

\* nodes.map(node => this.generateNodeHtml(node)): the fragments in input order.
mapNodes(nodes, used, counter) ==
  IF nodes = <<>> THEN [frags |-> <<>>, used |-> used, counter |-> counter]
  ELSE mapRest(generateNodeHtml(Head(nodes), used, counter), Tail(nodes))

\* Variant: the fragments put end to end, with nothing between them.
joinFragments_glued(m) ==
  [html    |-> concatAll(SelectSeq(m.frags, LAMBDA h : ~isBlank(h))),
   used    |-> m.used,
   counter |-> m.counter]

\* .filter(html => html.trim() !== '').join('\n')
joinFragments(m) ==
  [html    |-> joinLines(SelectSeq(m.frags, LAMBDA h : ~isBlank(h))),
   used    |-> m.used,
   counter |-> m.counter]

generateNodesHtml(nodes, used, counter) == joinFragments(mapNodes(nodes, used, counter))

\* Variant: a dispatch that takes every mapping the rules return.
renderMapped_unvalidated(ncdsMapping, n, used, counter) ==
  IF ncdsMapping # null
  THEN generateNcdsComponentHtml(ncdsMapping, n, used, counter)
  ELSE generateRegularHtml(n, used, counter)

\* if (ncdsMapping && validateNcdsMapping(ncdsMapping)) ... else ...
renderMapped(ncdsMapping, n, used, counter) ==
  IF ncdsMapping # null /\ validateNcdsMapping(ncdsMapping)
  THEN generateNcdsComponentHtml(ncdsMapping, n, used, counter)
  ELSE generateRegularHtml(n, used, counter)

generateNodeHtml(n, used, counter) == renderMapped(mapToNcdsComponent(n), n, used, counter)

\* The comment line and the markup of the template of the component kind, around
\* the rendered children.
componentMarkup(m, n, children) ==
  LET comment == IF options.includeComments
                 THEN <<"<!-- NCDS ", m.component, ": ">> \o n.name \o <<" -->\n">>
                 ELSE <<>>
  IN  [html    |-> comment \o dispatchTemplate(m, generateId(n), generateClassName(m),
                                               generateNcdsProps(m.props), children.html, n),
       used    |-> children.used,
       counter |-> children.counter]

\* The usage is recorded first; the children are rendered whatever the kind.
generateNcdsComponentHtml(m, n, used, counter) ==
  componentMarkup(m, n, generateChildren(n, addUsed(used, m.component),
                                            increment(counter, m.component)))

\* Variant: the content alone, with no element around it.
regularMarkup_bare(n, children) ==
  [html    |-> orElse(n.text, <<>>) \o children.html,
   used    |-> children.used,
   counter |-> children.counter]

\* The tag of the node kind with its attributes, around the text and the children.
regularMarkup(n, children) ==
  LET tag       == getHtmlTag(n)
      id        == generateId(n)
      className == generateRegularClassName(n)
      styles    == generateInlineStyles(n)
      attrs     == SelectSeq(<< IF id # <<>> THEN <<"id=\"">> \o id \o <<"\"">> ELSE <<>>,
                                IF className # <<>>
                                THEN <<"class=\"">> \o className \o <<"\"">> ELSE <<>>,
                                IF styles # <<>>
                                THEN <<"style=\"">> \o styles \o <<"\"">> ELSE <<>> >>,
                             LAMBDA a : a # <<>>)
      attributes == joinWith(attrs, " ")
      content   == orElse(n.text, <<>>) \o children.html
      openTag   == <<"<", tag>> \o (IF attributes # <<>> THEN <<" ">> \o attributes ELSE <<>>)
                     \o <<">">>
      closeTag  == <<"</", tag, ">">>
  IN  [html    |-> openTag \o content \o closeTag,
       used    |-> children.used,
       counter |-> children.counter]

generateRegularHtml(n, used, counter) == regularMarkup(n, generateChildren(n, used, counter))

generateChildren(n, used, counter) ==
  IF n.children = <<>> \/ Len(n.children[1]) = 0
  THEN [html |-> <<>>, used |-> used, counter |-> counter]
  ELSE generateNodesHtml(n.children[1], used, counter)

\* Array.from(this.usedComponents)
generateImports(used) == used

\* The fixed style sheet text.
generateNcdsCss == <<"\n/* NCDS UI Admin Essential Resources */ ... .swiper-slide {\n  width: auto;\n}\n    ">>

wrapInContainer(html) == <<"<div class=\"figma-container\">\n">> \o html \o <<"\n</div>">>

\* Variant: a call that keeps what the calls before it recorded.
clearUsage_keep(used, counter) == [used |-> used, counter |-> counter]

\* this.usedComponents.clear(); this.componentCounter = {}
clearUsage(used, counter) == [used |-> <<>>, counter |-> EmptyCounter]

\* The value returned, with the instance fields the call leaves.
resultOf(r) ==
  [result  |-> [html    |-> IF options.wrapInContainer THEN wrapInContainer(r.html) ELSE r.html,
                css     |-> IF options.includeCSS THEN <<generateNcdsCss>> ELSE <<>>,
                imports |-> IF options.generateNcdsImports
                            THEN <<generateImports(r.used)>> ELSE <<>>,
                componentUsage |-> r.counter],
   used    |-> r.used,
   counter |-> r.counter]

\* The nodes of the design are rendered in the cleared state.
generateCleared(d, cleared) == resultOf(generateNodesHtml(d.nodes, cleared.used, cleared.counter))

generateFromDesign(d, used, counter) == generateCleared(d, clearUsage(used, counter))

\* constructor: the defaults, overridden by the options given.
DefaultOptions ==
  [includeCSS |-> TRUE, includeComments |-> TRUE, phpNamingConvention |-> TRUE,
   generateNcdsImports |-> TRUE, wrapInContainer |-> TRUE]

constructorOptions(given) ==
  [f \in DOMAIN DefaultOptions |-> IF f \in DOMAIN given THEN given[f] ELSE DefaultOptions[f]]

-----------------------------------------------------------------------------
(* Exceptions.  The only field of a node the code dereferences without a   *)
(* guard is the name: node.name.toLowerCase() raises a TypeError when the  *)
(* name is absent.  A node without name is a record without the field      *)
(* name.  The operators above are applied to a node only where the         *)
(* operators below say the code does not raise.                            *)

nameless(n) == "name" \notin DOMAIN n

\* findChildText: find() reads child.name of every child up to the first match.
findChildTextRaises(n, type) ==
  /\ n.children # <<>>
  /\ \E i \in 1..Len(n.children[1]) :
       /\ nameless(n.children[1][i])
       /\ \A j \in 1..(i - 1) :
            \/ nameless(n.children[1][j])
            \/ ~(includes(lname(n.children[1][j]), type) /\ truthy(n.children[1][j].text))

\* extractTabItems: map() reads child.name of every child the filter keeps.
extractTabItemsRaises(n) ==
  /\ n.children # <<>>
  /\ \E i \in 1..Len(n.children[1]) :
       /\ nameless(n.children[1][i])
       /\ (n.children[1][i].type = "TEXT" \/ truthy(n.children[1][i].text))

\* The mappers that read the names of the children.
mapperRaises(r, n) ==
  CASE r.rule = "Modal"        -> findChildTextRaises(n, S["title"])
    [] r.rule = "Tab"          -> extractTabItemsRaises(n)
    [] r.rule = "Notification" -> \/ findChildTextRaises(n, S["title"])
                                  \/ findChildTextRaises(n, S["description"])
    [] r.rule = "VerticalTab"  -> extractTabItemsRaises(n)
    [] r.rule = "Tooltip"      -> findChildTextRaises(n, S["title"])
    [] r.rule = "EmptyState"   -> \/ findChildTextRaises(n, S["title"])
                                  \/ findChildTextRaises(n, S["description"])
    [] OTHER                   -> FALSE

\* The position of the first rule whose condition holds, 0 when there is none.
RECURSIVE firstRuleFrom(_, _, _)
firstRuleFrom(table, i, n) ==
  IF i > Len(table) THEN 0
  ELSE IF condition(table[i], n) THEN i
  ELSE firstRuleFrom(table, i + 1, n)

\* The mapper of the rule at position i raises (no rule: nothing to raise).
ruleRaises(i, n) == i # 0 /\ mapperRaises(rules[i], n)

\* mapToNcdsComponent(n) raises: in the first condition, or in the mapper.
classifyRaises(n) == nameless(n) \/ ruleRaises(firstRuleFrom(rules, 1, n), n)

RECURSIVE nodesRaise(_)

\* generateNodeHtml(n) raises: on the node itself or below it.
nodeRaises(n) ==
  \/ classifyRaises(n)
  \/ (n.children # <<>> /\ nodesRaise(n.children[1]))

\* generateNodesHtml(nodes) raises.
nodesRaise(nodes) == \E i \in 1..Len(nodes) : nodeRaises(nodes[i])

\* The part of a forest that has been rendered when the exception is raised:
\* the nodes before the raising one in document order, a parent being
\* classified and recorded before its children are rendered.
RECURSIVE renderedBeforeRaise(_)
renderedBeforeRaise(nodes) ==
  IF nodes = <<>> THEN <<>>
  ELSE IF classifyRaises(Head(nodes)) THEN <<>>
  ELSE IF nodeRaises(Head(nodes))
       THEN << [Head(nodes) EXCEPT !.children = <<renderedBeforeRaise(Head(nodes).children[1])>>] >>
  ELSE <<Head(nodes)>> \o renderedBeforeRaise(Tail(nodes))

\* The instance fields an exception in generateFromDesign leaves: the state is
\* cleared on entry and holds what was recorded up to the raise.
raisedFromDesign(d, used, counter) ==
  generateCleared([nodes |-> renderedBeforeRaise(d.nodes)], clearUsage(used, counter))
W ==
      ("3" :> <<"3">>)
   @@ ("Message" :> <<"M","e","s","s","a","g","e">>)
   @@ ("Check" :> <<"C","h","e","c","k">>)
   @@ ("Button" :> <<"B","u","t","t","o","n">>)
   @@ ("Submit" :> <<"S","u","b","m","i","t">>)
   @@ ("Input" :> <<"I","n","p","u","t">>)
   @@ ("Checkbox" :> <<"C","h","e","c","k","b","o","x">>)
   @@ ("Radio" :> <<"R","a","d","i","o">>)
   @@ ("select" :> <<"s","e","l","e","c","t">>)
   @@ ("Dropdown" :> <<"D","r","o","p","d","o","w","n">>)
   @@ ("Badge" :> <<"B","a","d","g","e">>)
   @@ ("Tag" :> <<"T","a","g">>)
   @@ ("Modal" :> <<"M","o","d","a","l">>)
   @@ ("Tab" :> <<"T","a","b">>)
   @@ ("TABLE" :> <<"T","A","B","L","E">>)
   @@ ("Pagination" :> <<"P","a","g","i","n","a","t","i","o","n">>)
   @@ ("Progress" :> <<"P","r","o","g","r","e","s","s">>)
   @@ ("Bar" :> <<"B","a","r">>)
   @@ ("Notification" :> <<"N","o","t","i","f","i","c","a","t","i","o","n">>)
   @@ ("Vertical" :> <<"V","e","r","t","i","c","a","l">>)
   @@ ("Circle" :> <<"C","i","r","c","l","e">>)
   @@ ("Spinner" :> <<"S","p","i","n","n","e","r">>)
   @@ ("Stage" :> <<"S","t","a","g","e">>)
   @@ ("Toggle" :> <<"T","o","g","g","l","e">>)
   @@ ("Tooltip" :> <<"T","o","o","l","t","i","p">>)
   @@ ("Slider" :> <<"S","l","i","d","e","r">>)
   @@ ("Breadcrumb" :> <<"B","r","e","a","d","c","r","u","m","b">>)
   @@ ("Divider" :> <<"D","i","v","i","d","e","r">>)
   @@ ("Empty" :> <<"E","m","p","t","y">>)
   @@ ("Icon" :> <<"I","c","o","n">>)
   @@ ("Card" :> <<"C","a","r","d">>)
   @@ ("Primary" :> <<"P","r","i","m","a","r","y">>)
   @@ ("Disabled" :> <<"D","i","s","a","b","l","e","d">>)
   @@ ("Active" :> <<"A","c","t","i","v","e">>)
   @@ ("Title" :> <<"T","i","t","l","e">>)
   @@ ("Group" :> <<"G","r","o","u","p">>)
   @@ ("1" :> <<"1">>)
   @@ ("2" :> <<"2">>)
   @@ ("xxs" :> <<"x","x","s">>)
   @@ ("tiny" :> <<"t","i","n","y">>)
   @@ ("xs" :> <<"x","s">>)
   @@ ("small" :> <<"s","m","a","l","l">>)
   @@ ("sm" :> <<"s","m">>)
   @@ ("md" :> <<"m","d">>)
   @@ ("lg" :> <<"l","g">>)
   @@ ("large" :> <<"l","a","r","g","e">>)
   @@ ("xl" :> <<"x","l">>)
   @@ ("xlarge" :> <<"x","l","a","r","g","e">>)
   @@ ("2xl" :> <<"2","x","l">>)
   @@ ("xxlarge" :> <<"x","x","l","a","r","g","e">>)
   @@ ("Hello" :> <<"H","e","l","l","o">>)
   @@ ("Hi" :> <<"H","i">>)
   @@ ("Description" :> <<"D","e","s","c","r","i","p","t","i","o","n">>)
   @@ ("Menu" :> <<"M","e","n","u">>)

-----------------------------------------------------------------------------
(* Inputs.                                                                 *)

MaxWords == 2
MaxChildren == 2

\* The words of a sequence, joined by one space.
RECURSIVE joinWords(_)
joinWords(ws) ==
  IF ws = <<>> THEN <<>>
  ELSE IF Len(ws) = 1 THEN W[ws[1]]
  ELSE W[ws[1]] \o <<" ">> \o joinWords(Tail(ws))

\* The sequences of up to k words of a vocabulary.
WordSeqs(vocabulary, k) == UNION {[1..j -> vocabulary] : j \in 0..k}

NodeTypes ==
  {"TEXT", "FRAME", "GROUP", "RECTANGLE", "ELLIPSE", "IMAGE", "INSTANCE",
   "COMPONENT", "LINE", "VECTOR"}

\* A node without optional fields other than the text.
Leaf(id, type, name, text) ==
  [id |-> id, name |-> name, type |-> type, text |-> text, layout |-> <<>>,
   opacity |-> <<>>, borderRadius |-> <<>>, children |-> <<>>]

SomeLayout == <<[width |-> 2, height |-> 1]>>

TitleChild == Leaf(<<"1", ":", "1">>, "TEXT", W["Title"], <<W["Hello"]>>)

\* Nodes given to the mapper: every kind, the empty name and every name of up to
\* MaxWords words over the keywords of the rules, bare or fully populated.
RuleVocabulary ==
  { "Button", "Input", "Checkbox", "Radio", "select", "Dropdown", "Badge", "Tag",
    "Modal", "Tab", "TABLE", "Pagination", "Progress", "Bar", "Notification",
    "Vertical", "Circle", "Spinner", "Stage", "Toggle", "Tooltip", "Slider",
    "Breadcrumb", "Divider", "Empty", "Icon", "Card" }

MapTypes == {"TEXT", "FRAME", "GROUP", "INSTANCE", "COMPONENT", "LINE"}

MapInput(t, ws, populated) ==
  IF populated
  THEN [Leaf(<<"1">>, t, joinWords(ws), <<W["Hi"]>>) EXCEPT !.layout = SomeLayout,
                                                           !.children = << <<TitleChild>> >>]
  ELSE Leaf(<<"1">>, t, joinWords(ws), <<>>)

\* Nodes given to inferSize: names over the size tokens, with and without a layout.
SizeVocabulary ==
  { "xxs", "tiny", "xs", "small", "sm", "md", "lg", "large", "xl", "xlarge", "2xl",
    "xxlarge", "Button", "Card" }

SizeInput(ws, ly) == [Leaf(<<"1">>, "FRAME", joinWords(ws), <<>>) EXCEPT !.layout = ly]

\* Mappings given to validateNcdsMapping: the kinds of the table and other strings.
KindStrings ==
  { validComponents[i] : i \in 1..Len(validComponents) }
  \cup { "", "button", "BUTTON", "Buttons", "Input", "Tab", "Table", "Card", "Icon",
         "Breadcrumb", "Progress", "Avatar", "null", "undefined" }

CandidateMappings ==
  { [component |-> k, props |-> [size |-> sz], htmlTag |-> tag, className |-> "ncua-x"] :
      k \in KindStrings, sz \in {"md", "lg"}, tag \in {"div", "span"} }

\* Trees given to the generator: a root with up to MaxChildren children.
RootProtos ==
  { Leaf(<<>>, "FRAME", W["Modal"], <<>>),
    Leaf(<<>>, "FRAME", W["Checkbox"] \o <<" ">> \o W["Disabled"], <<>>),
    Leaf(<<>>, "FRAME", W["Card"], <<>>),
    Leaf(<<>>, "FRAME", W["Tab"] \o <<" ">> \o W["Group"], <<>>) }

ChildProtos ==
  { Leaf(<<>>, "INSTANCE", W["Icon"], <<>>),
    Leaf(<<>>, "TEXT", W["Tab"] \o <<" ">> \o W["2"] \o <<" ">> \o W["Active"], <<W["Hello"]>>),
    [Leaf(<<>>, "FRAME", W["Card"], <<>>) EXCEPT
       !.children = << << Leaf(<<>>, "FRAME",
                               W["Primary"] \o <<" ">> \o W["Button"], <<W["Submit"]>>) >> >>] }

\* The node with identifier id, its descendants numbered below it (id:1, id:2, ...).
RECURSIVE withIds(_, _)
withIds(n, id) ==
  [n EXCEPT !.id = id,
            !.children = IF n.children = <<>> THEN <<>>
                         ELSE << [i \in 1..Len(n.children[1]) |->
                                    withIds(n.children[1][i], id \o <<":">> \o toDecimal(i))] >>]

Trees ==
  { withIds(IF k = 0 THEN r ELSE [r EXCEPT !.children = << [i \in 1..k |-> cs[i]] >>], <<"1">>) :
      r \in RootProtos, k \in 0..MaxChildren, cs \in [1..MaxChildren -> ChildProtos] }

Designs ==
  { [nodes |-> <<t>>] : t \in Trees }
  \cup { [nodes |-> <<withIds(a, <<"1">>), withIds(b, <<"2">>)>>] : a \in RootProtos, b \in ChildProtos }

GivenOptions ==
  { [wrapInContainer |-> TRUE],
    [generateNcdsImports |-> FALSE],
    [includeComments |-> FALSE, phpNamingConvention |-> FALSE],
    [wrapInContainer |-> FALSE, includeCSS |-> FALSE] }

-----------------------------------------------------------------------------
(* The mapper functions, each applied to one input.                        *)

InitIdle ==
  /\ rules = NCDS_COMPONENT_RULES
  /\ options = DefaultOptions
  /\ usedComponents = <<>>
  /\ componentCounter = EmptyCounter
  /\ before = <<>>
  /\ design = <<>>
  /\ result = <<>>
  /\ NoHandlerCall

InitMap ==
  /\ InitIdle
  /\ pc = "start"
  /\ \E t \in MapTypes, ws \in WordSeqs(RuleVocabulary, MaxWords), populated \in BOOLEAN :
       node = MapInput(t, ws, populated)
  /\ mapping = null
  /\ valid = FALSE
  /\ inferred = ""

\* const ncdsMapping = mapToNcdsComponent(node)
MapNode ==
  /\ pc = "start"
  /\ mapping' = mapToNcdsComponent(node)
  /\ pc' = "mapped"
  /\ UNCHANGED handlerVars
  /\ UNCHANGED <<rules, options, usedComponents, componentCounter, before, design, result,
                 node, valid, inferred>>

\* validateNcdsMapping(ncdsMapping)
ValidateMapping ==
  /\ pc = "mapped"
  /\ mapping # null
  /\ valid' = validateNcdsMapping(mapping)
  /\ pc' = "validated"
  /\ UNCHANGED handlerVars
  /\ UNCHANGED <<rules, options, usedComponents, componentCounter, before, design, result,
                 node, mapping, inferred>>

NextMap == MapNode \/ ValidateMapping

SpecMap == InitMap /\ [][NextMap]_vars

InitSize ==
  /\ InitIdle
  /\ pc = "start"
  /\ \E ws \in WordSeqs(SizeVocabulary, MaxWords), ly \in {<<>>, SomeLayout} :
       node = SizeInput(ws, ly)
  /\ mapping = null
  /\ valid = FALSE
  /\ inferred = ""

\* inferSize(node)
InferSize ==
  /\ pc = "start"
  /\ inferred' = inferSize(node)
  /\ pc' = "sized"
  /\ UNCHANGED handlerVars
  /\ UNCHANGED <<rules, options, usedComponents, componentCounter, before, design, result,
                 node, mapping, valid>>

SpecSize == InitSize /\ [][InferSize]_vars

InitValidate ==
  /\ InitIdle
  /\ pc = "mapped"
  /\ node = <<>>
  /\ mapping \in CandidateMappings
  /\ valid = FALSE
  /\ inferred = ""

SpecValidate == InitValidate /\ [][ValidateMapping]_vars

-----------------------------------------------------------------------------
(* The generator: one instance, called any number of times.                *)

Init ==
  /\ rules = NCDS_COMPONENT_RULES
  /\ options \in {constructorOptions(g) : g \in GivenOptions}
  /\ usedComponents = <<>>
  /\ componentCounter = EmptyCounter
  /\ pc = "idle"
  /\ before = <<>>
  /\ design = <<>>
  /\ result = <<>>
  /\ node = <<>>
  /\ mapping = null
  /\ valid = FALSE
  /\ inferred = ""
  /\ NoHandlerCall

\* The call returns out.result and leaves the fields out.used and out.counter.
returnFrom(d, out) ==
  /\ before' = <<[used |-> usedComponents, counter |-> componentCounter]>>
  /\ design' = <<d>>
  /\ result' = <<out.result>>
  /\ usedComponents' = out.used
  /\ componentCounter' = out.counter

\* generator.generateFromDesign(d)
GenerateFromDesign ==
  /\ pc = "idle"
  /\ \E d \in Designs : returnFrom(d, generateFromDesign(d, usedComponents, componentCounter))
  /\ pc' = "returned"
  /\ UNCHANGED handlerVars
  /\ UNCHANGED <<rules, options, node, mapping, valid, inferred>>

\* The caller takes the returned value; the instance keeps its fields.
TakeResult ==
  /\ pc = "returned"
  /\ pc' = "idle"
  /\ before' = <<>>
  /\ design' = <<>>
  /\ result' = <<>>
  /\ UNCHANGED handlerVars
  /\ UNCHANGED <<rules, options, usedComponents, componentCounter, node, mapping,
                 valid, inferred>>

Next == GenerateFromDesign \/ TakeResult

Spec == Init /\ [][Next]_vars

(* The same, with the rule table open to its importers: the exported array *)
(* NCDS_COMPONENT_RULES is mutable, and a module that imports it can push  *)
(* a rule of its own, whose mapper names a component kind the validator    *)
(* does not know.                                                          *)

PushedRules ==
  { [rule |-> "pushed", type |-> "FRAME", word |-> toLowerCase(W["Card"]), component |-> "Card"] }

\* NCDS_COMPONENT_RULES.push(rule)
PushRule ==
  /\ pc = "idle"
  /\ rules = NCDS_COMPONENT_RULES
  /\ \E r \in PushedRules : rules' = Append(rules, r)
  /\ UNCHANGED handlerVars
  /\ UNCHANGED <<options, usedComponents, componentCounter, pc, before, design, result,
                 node, mapping, valid, inferred>>

NextExt == GenerateFromDesign \/ TakeResult \/ PushRule

SpecExt == Init /\ [][NextExt]_vars

-----------------------------------------------------------------------------
(* The generator on sparsely populated trees: any optional field of a node *)
(* may be absent, the name included.                                       *)

withoutName(n) == [f \in DOMAIN n \ {"name"} |-> n[f]]

\* A node with every optional field present.
Populated(type, name, text) ==
  [Leaf(<<>>, type, name, <<text>>) EXCEPT !.layout = SomeLayout,
                                          !.opacity = <<"0.5">>,
                                          !.borderRadius = <<"4px">>,
                                          !.children = << <<>> >>]

SparseKids ==
  { Leaf(<<>>, "TEXT", W["Title"], <<W["Hello"]>>),
    withoutName(Leaf(<<>>, "TEXT", <<>>, <<W["Hello"]>>)),
    withoutName(Leaf(<<>>, "FRAME", <<>>, <<>>)),
    Leaf(<<>>, "FRAME", W["Primary"] \o <<" ">> \o W["Button"], <<>>),
    Populated("INSTANCE", W["Icon"], W["Hi"]) }

SparseRoots ==
  { Leaf(<<>>, "FRAME", W["Modal"], <<>>),
    Leaf(<<>>, "FRAME", W["Tab"] \o <<" ">> \o W["Group"], <<>>),
    Leaf(<<>>, "FRAME", W["Card"], <<>>),
    Leaf(<<>>, "FRAME", W["Checkbox"] \o <<" ">> \o W["Disabled"], <<>>) }

SparseTrees ==
  { withIds([r EXCEPT !.children = <<kids>>], <<"1">>) :
      r \in SparseRoots, kids \in UNION {[1..k -> SparseKids] : k \in 0..MaxChildren} }
  \cup { withIds(r, <<"1">>) : r \in SparseRoots \cup SparseKids }

SparseDesigns == { [nodes |-> <<t>>] : t \in SparseTrees } \cup { [nodes |-> <<>>] }

\* generator.generateFromDesign(d) returns
GenerateFromSparse ==
  /\ pc = "idle"
  /\ \E d \in {s \in SparseDesigns : ~nodesRaise(s.nodes)} :
       returnFrom(d, generateFromDesign(d, usedComponents, componentCounter))
  /\ pc' = "returned"
  /\ UNCHANGED handlerVars
  /\ UNCHANGED <<rules, options, node, mapping, valid, inferred>>

\* The call raises and leaves the fields left.used and left.counter.
raiseFrom(d, left) ==
  /\ before' = <<[used |-> usedComponents, counter |-> componentCounter]>>
  /\ design' = <<d>>
  /\ result' = <<>>
  /\ usedComponents' = left.used
  /\ componentCounter' = left.counter

\* generator.generateFromDesign(d) raises a TypeError
GenerateRaises ==
  /\ pc = "idle"
  /\ \E d \in {s \in SparseDesigns : nodesRaise(s.nodes)} :
       raiseFrom(d, raisedFromDesign(d, usedComponents, componentCounter))
  /\ pc' = "raised"
  /\ UNCHANGED handlerVars
  /\ UNCHANGED <<rules, options, node, mapping, valid, inferred>>

\* The caller catches the exception; the instance keeps its fields.
CatchError ==
  /\ pc = "raised"
  /\ pc' = "idle"
  /\ before' = <<>>
  /\ design' = <<>>
  /\ UNCHANGED handlerVars
  /\ UNCHANGED <<rules, options, usedComponents, componentCounter, result, node, mapping,
                 valid, inferred>>

NextSparse == GenerateFromSparse \/ GenerateRaises \/ TakeResult \/ CatchError

SpecSparse == Init /\ [][NextSparse]_vars

-----------------------------------------------------------------------------
(* One node through the pipeline: classified, then rendered by an instance *)
(* with nothing recorded.                                                  *)

NodeVocabulary ==
  { "Tab", "TABLE", "Button", "Primary", "Checkbox", "Disabled", "Card", "lg" }

RenderTypes == {"TEXT", "FRAME", "GROUP", "RECTANGLE", "ELLIPSE", "IMAGE", "LINE", "INSTANCE"}

TabText(k) == Leaf(<<>>, "TEXT", W["Tab"] \o <<" ">> \o W[k], <<W["Tab"] \o <<" ">> \o W[k]>>)

ActiveTabText(k) ==
  Leaf(<<>>, "TEXT", W["Tab"] \o <<" ">> \o W[k] \o <<" ">> \o W["Active"],
       <<W["Tab"] \o <<" ">> \o W[k]>>)

\* Three text children, the second one active.
ThreeTabs == << TabText("1"), ActiveTabText("2"), TabText("3") >>

\* Children of every sort: a text with and without content, an active frame
\* with and without text.
TabKids ==
  { TabText("1"),
    ActiveTabText("2"),
    Leaf(<<>>, "TEXT", W["Title"], <<>>),
    Leaf(<<>>, "FRAME", W["Active"] \o <<" ">> \o W["Card"], <<>>),
    Leaf(<<>>, "FRAME", W["Card"], <<W["Hi"]>>) }

KidLists == UNION {[1..k -> TabKids] : k \in 0..MaxChildren}

NodeInput(type, name, text, kids) ==
  withIds([Leaf(<<>>, type, name, text) EXCEPT !.children = kids], <<"1">>)

InitNode ==
  /\ rules = NCDS_COMPONENT_RULES
  /\ options \in {DefaultOptions,
                  constructorOptions([includeComments |-> FALSE, phpNamingConvention |-> FALSE])}
  /\ usedComponents = <<>>
  /\ componentCounter = EmptyCounter
  /\ pc = "start"
  /\ before = <<>>
  /\ design = <<>>
  /\ result = <<>>
  /\ \/ \E type \in RenderTypes, ws \in WordSeqs(NodeVocabulary, MaxWords),
           text \in {<<>>, <<W["Submit"]>>}, kids \in {<<>>, <<ThreeTabs>>},
           layout \in {<<>>, SomeLayout} :
          node = [NodeInput(type, joinWords(ws), text, kids) EXCEPT !.layout = layout]
     \/ \E ws \in {<<"Tab", "Group">>, <<"Card">>, <<"Checkbox", "Disabled">>},
           text \in {<<>>, << <<>> >>, <<W["Hello"]>>}, kids \in KidLists,
           type \in {"FRAME", "TEXT"} :
          node = NodeInput(type, joinWords(ws), text, <<kids>>)
  /\ mapping = null
  /\ valid = FALSE
  /\ inferred = ""
  /\ NoHandlerCall

\* The markup returned for the node and the usage recorded for it.
renderedNode(r) ==
  /\ result' = <<r.html>>
  /\ usedComponents' = r.used
  /\ componentCounter' = r.counter

\* this.generateNodeHtml(node)
RenderNode ==
  /\ pc = "mapped"
  /\ renderedNode(generateNodeHtml(node, usedComponents, componentCounter))
  /\ pc' = "rendered"
  /\ UNCHANGED handlerVars
  /\ UNCHANGED <<rules, options, before, design, node, mapping, valid, inferred>>

NextNode == MapNode \/ RenderNode

SpecNode == InitNode /\ [][NextNode]_vars
-----------------------------------------------------------------------------
(* The two progress templates, each applied to props of its own: the rules *)
(* always give progress 50, a caller of the templates any number or none.  *)

MaxProgress == 150

ProgressValues == (0 - MaxProgress)..MaxProgress

\* props with the field progress set to v.
withProgress(props, v) ==
  [f \in DOMAIN props \cup {"progress"} |-> IF f = "progress" THEN v ELSE props[f]]

\* props without progress: the label placements and showValue of the bar.
BarProps ==
  { [size |-> "md"],
    [size |-> "md", label |-> "right", showValue |-> TRUE],
    [size |-> "md", label |-> "bottom", showValue |-> TRUE],
    [size |-> "md", label |-> "right", showValue |-> FALSE] }

CircleProps == { [size |-> "md"], [size |-> "lg", strokeWidth |-> 6] }

ProgressNode(kind) ==
  NodeInput("FRAME", W["Progress"] \o <<" ">> \o W[kind], <<>>, <<>>)

\* The mapping of the rule, with the props given in place of the rule's.
ProgressInput(m, props) == [m EXCEPT !.props = props]

InitProgress ==
  /\ rules = NCDS_COMPONENT_RULES
  /\ options = DefaultOptions
  /\ usedComponents = <<>>
  /\ componentCounter = EmptyCounter
  /\ pc = "start"
  /\ before = <<>>
  /\ design = <<>>
  /\ result = <<>>
  /\ \/ /\ node = ProgressNode("Bar")
        /\ \E p \in BarProps :
             \/ mapping = ProgressInput(ProgressBarMapper(node), p)
             \/ \E v \in ProgressValues :
                  mapping = ProgressInput(ProgressBarMapper(node), withProgress(p, v))
     \/ /\ node = ProgressNode("Circle")
        /\ \E p \in CircleProps :
             \/ mapping = ProgressInput(ProgressCircleMapper(node), p)
             \/ \E v \in ProgressValues :
                  mapping = ProgressInput(ProgressCircleMapper(node), withProgress(p, v))
  /\ valid = FALSE
  /\ inferred = ""
  /\ NoHandlerCall

\* this.generateProgressBarHtml(id, className, props, node)
RenderProgressBar ==
  /\ pc = "start"
  /\ mapping.component = "ProgressBar"
  /\ result' = <<generateProgressBarHtml(generateId(node), generateClassName(mapping),
                                         generateNcdsProps(mapping.props), node)>>
  /\ pc' = "rendered"
  /\ UNCHANGED handlerVars
  /\ UNCHANGED <<rules, options, usedComponents, componentCounter, before, design, node,
                 mapping, valid, inferred>>

\* this.generateProgressCircleHtml(id, className, props, node)
RenderProgressCircle ==
  /\ pc = "start"
  /\ mapping.component = "ProgressCircle"
  /\ result' = <<generateProgressCircleHtml(generateId(node), generateClassName(mapping),
                                            generateNcdsProps(mapping.props), node)>>
  /\ pc' = "rendered"
  /\ UNCHANGED handlerVars
  /\ UNCHANGED <<rules, options, usedComponents, componentCounter, before, design, node,
                 mapping, valid, inferred>>

NextProgress == RenderProgressBar \/ RenderProgressCircle

SpecProgress == InitProgress /\ [][NextProgress]_vars
-----------------------------------------------------------------------------
(* The tool handler generateNcdsHtml: it awaits the fetch of the raw       *)
(* response, and in the continuation simplifies it, constructs a generator, *)
(* generates and formats; the whole body is in one try, whose catch clause  *)
(* returns an error result.  The fetch and the simplification belong to     *)
(* collaborators: each either completes or raises.                          *)

\* The parameters after the schema has filled in the defaults.
HandlerParams ==
  { [fileKey |-> <<"F">>, nodeId |-> nodeId, depth |-> <<>>,
     includeCSS |-> constructorOptions(g).includeCSS,
     includeComments |-> constructorOptions(g).includeComments,
     phpNamingConvention |-> constructorOptions(g).phpNamingConvention,
     generateNcdsImports |-> constructorOptions(g).generateNcdsImports,
     wrapInContainer |-> constructorOptions(g).wrapInContainer,
     outputFormat |-> outputFormat] :
      nodeId \in {<<>>, << <<"1", ":", "2">> >>}, g \in GivenOptions,
      outputFormat \in {"html", "complete"} }

\* The options object the handler builds from the parameters.
optionsOf(p) ==
  [includeCSS |-> p.includeCSS, includeComments |-> p.includeComments,
   phpNamingConvention |-> p.phpNamingConvention,
   generateNcdsImports |-> p.generateNcdsImports, wrapInContainer |-> p.wrapInContainer]

\* The designs a raw response simplifies to: empty, one widget, a frame with
\* one child that may lack a name.
HandlerDesigns ==
  { [nodes |-> <<>>] }
  \cup { [nodes |-> <<withIds(r, <<"1">>)>>] : r \in RootProtos }
  \cup { [nodes |-> <<withIds([Leaf(<<>>, "FRAME", W["Card"], <<>>) EXCEPT
                                 !.children = << <<kid>> >>], <<"1">>)>>] : kid \in SparseKids }

\* figmaService.getRawNode(fileKey, nodeId, depth) when a node is named,
\* figmaService.getRawFile(fileKey, depth) otherwise.
endpointOf(p) == IF p.nodeId # <<>> THEN "getRawNode" ELSE "getRawFile"

RawResponses(p) == { [endpoint |-> endpointOf(p), document |-> d] : d \in HandlerDesigns }

\* simplifyRawFigmaObject(rawApiResponse, allExtractors, {maxDepth: depth})
simplified(raw) == raw.document

\* What a collaborator throws: an Error, or a value that is not an Error.
FetchFailures ==
  { [isError |-> TRUE, message |-> <<"Failed to make request to Figma API: 404">>],
    [isError |-> FALSE, kind |-> "string", value |-> <<"timeout">>],
    [isError |-> FALSE, kind |-> "object", status |-> 429],
    [isError |-> FALSE, kind |-> "undefined"] }

SimplifyFailures ==
  { [isError |-> TRUE, message |-> <<"Cannot read properties of undefined (reading 'children')">>] }

\* The TypeError of node.name.toLowerCase() on a node without a name.
NameTypeError ==
  [isError |-> TRUE, message |-> <<"Cannot read properties of undefined (reading 'toLowerCase')">>]

\* `${JSON.stringify(error)}`: a string is quoted, an object is written with its
\* keys, and undefined is not serialised and prints as the word.
stringify(e) ==
  CASE e.kind = "string"    -> <<"\"">> \o e.value \o <<"\"">>
    [] e.kind = "object"    -> <<"{\"status\":">> \o numText(e.status) \o <<"}">>
    [] e.kind = "undefined" -> <<"undefined">>

\* error instanceof Error ? error.message : JSON.stringify(error)
messageOf(e) == IF e.isError THEN e.message ELSE stringify(e)

\* Variant: an error text returned as an ordinary result.
errorResult_unflagged(message) ==
  [isError |-> FALSE,
   content |-> << [type |-> "text", text |-> <<"Error generating NCDS HTML: ">> \o message] >>]

\* The value the catch clause returns.
errorResult(message) ==
  [isError |-> TRUE,
   content |-> << [type |-> "text", text |-> <<"Error generating NCDS HTML: ">> \o message] >>]

\* The value the try block returns; isError is absent and reads as false.
textResult(output) == [isError |-> FALSE, content |-> << [type |-> "text", text |-> output] >>]

\* The lines of the component usage summary; Object.entries lists the kinds in
\* the order of their first use, the order of order.
usageSection(usage, order) ==
  IF DOMAIN usage = {} THEN <<>>
  ELSE << <<"<!-- NCDS Components Used -->">>, <<"<!--">> >>
         \o [i \in 1..Len(order) |->
               <<"  ", order[i], ": ">> \o numText(usage[order[i]]) \o <<" instance(s)">>]
         \o << <<"-->">>, <<>> >>

importsSection(imports) ==
  IF imports = <<>> \/ imports[1] = <<>> THEN <<>>
  ELSE << <<"<!-- React/JavaScript Import Suggestions -->">>, <<"<!--">>,
          <<"  import { ">> \o joinWith([i \in 1..Len(imports[1]) |-> <<imports[1][i]>>], ", ")
             \o <<" } from '@ncds/ui-admin';">>,
          <<"-->">>, <<>> >>

cssSection(css, includeCSS) ==
  IF css = <<>> \/ ~includeCSS THEN <<>>
  ELSE << <<"<!-- CSS Styles -->">>, <<"<style>">>, css[1], <<"</style>">>, <<>> >>

\* The text of the result: the markup alone, or the sections joined by newlines.
formatOutput(r, order, p) ==
  IF p.outputFormat = "html" THEN r.html
  ELSE joinLines(usageSection(r.componentUsage, order) \o importsSection(r.imports)
                   \o cssSection(r.css, p.includeCSS)
                   \o << <<"<!-- Generated HTML -->">>, r.html >>)

InitHandler ==
  /\ rules = NCDS_COMPONENT_RULES
  /\ options = DefaultOptions
  /\ usedComponents = <<>>
  /\ componentCounter = EmptyCounter
  /\ pc = "idle"
  /\ before = <<>>
  /\ design = <<>>
  /\ result = <<>>
  /\ node = <<>>
  /\ mapping = null
  /\ valid = FALSE
  /\ inferred = ""
  /\ NoHandlerCall

\* The handler is called and starts the fetch; the options it will construct
\* the generator with are the flags of its parameters.
CallHandler ==
  /\ pc = "idle"
  /\ \E p \in HandlerParams :
       /\ params' = <<p>>
       /\ options' = constructorOptions(optionsOf(p))
  /\ pc' = "fetching"
  /\ UNCHANGED <<rules, usedComponents, componentCounter, before, design, result, node,
                 mapping, valid, inferred, rawApiResponse, error, response>>

\* rawApiResponse = await figmaService.getRaw...(...) resolves
FetchResolves ==
  /\ pc = "fetching"
  /\ \E raw \in RawResponses(params[1]) : rawApiResponse' = <<raw>>
  /\ pc' = "fetched"
  /\ UNCHANGED <<rules, options, usedComponents, componentCounter, before, design, result,
                 node, mapping, valid, inferred, params, error, response>>

\* await figmaService.getRaw...(...) rejects: control goes to the catch clause
FetchRejects ==
  /\ pc = "fetching"
  /\ \E e \in FetchFailures : error' = <<e>>
  /\ pc' = "caught"
  /\ UNCHANGED <<rules, options, usedComponents, componentCounter, before, design, result,
                 node, mapping, valid, inferred, params, rawApiResponse, response>>

\* simplifiedDesign = simplifyRawFigmaObject(rawApiResponse, ...)
SimplifyReturns ==
  /\ pc = "fetched"
  /\ design' = <<simplified(rawApiResponse[1])>>
  /\ pc' = "simplified"
  /\ UNCHANGED <<rules, options, usedComponents, componentCounter, before, result, node,
                 mapping, valid, inferred, params, rawApiResponse, error, response>>

\* simplifyRawFigmaObject(...) raises
SimplifyRaises ==
  /\ pc = "fetched"
  /\ \E e \in SimplifyFailures : error' = <<e>>
  /\ pc' = "caught"
  /\ UNCHANGED <<rules, options, usedComponents, componentCounter, before, design, result,
                 node, mapping, valid, inferred, params, rawApiResponse, response>>

\* result = new NcdsHtmlGenerator(...).generateFromDesign(simplifiedDesign)
HandlerGenerates ==
  /\ pc = "simplified"
  /\ \E d \in {s \in {design[1]} : ~nodesRaise(s.nodes)} :
       returnFrom(d, generateFromDesign(d, <<>>, EmptyCounter))
  /\ pc' = "generated"
  /\ UNCHANGED <<rules, options, node, mapping, valid, inferred, params, rawApiResponse,
                 error, response>>

\* generateFromDesign raises on a node without a name
HandlerGenerateRaises ==
  /\ pc = "simplified"
  /\ \E d \in {s \in {design[1]} : nodesRaise(s.nodes)} :
       raiseFrom(d, raisedFromDesign(d, <<>>, EmptyCounter))
  /\ error' = <<NameTypeError>>
  /\ pc' = "caught"
  /\ UNCHANGED <<rules, options, node, mapping, valid, inferred, params, rawApiResponse,
                 response>>

\* The output is formatted and returned in one text block.
HandlerReturns ==
  /\ pc = "generated"
  /\ response' = <<textResult(formatOutput(result[1], usedComponents, params[1]))>>
  /\ pc' = "done"
  /\ UNCHANGED <<rules, options, usedComponents, componentCounter, before, design, result,
                 node, mapping, valid, inferred, params, rawApiResponse, error>>

\* catch (error): the message is taken from the value caught and returned
HandlerCatches ==
  /\ pc = "caught"
  /\ response' = <<errorResult(messageOf(error[1]))>>
  /\ pc' = "done"
  /\ UNCHANGED <<rules, options, usedComponents, componentCounter, before, design, result,
                 node, mapping, valid, inferred, params, rawApiResponse, error>>

\* The caller takes the result; the generator of the call is dropped with it.
TakeResponse ==
  /\ pc = "done"
  /\ pc' = "idle"
  /\ options' = DefaultOptions
  /\ usedComponents' = <<>>
  /\ componentCounter' = EmptyCounter
  /\ before' = <<>>
  /\ design' = <<>>
  /\ result' = <<>>
  /\ params' = <<>>
  /\ rawApiResponse' = <<>>
  /\ error' = <<>>
  /\ response' = <<>>
  /\ UNCHANGED <<rules, node, mapping, valid, inferred>>

NextHandler ==
  \/ CallHandler
  \/ FetchResolves
  \/ FetchRejects
  \/ SimplifyReturns
  \/ SimplifyRaises
  \/ HandlerGenerates
  \/ HandlerGenerateRaises
  \/ HandlerReturns
  \/ HandlerCatches
  \/ TakeResponse

SpecHandler == InitHandler /\ [][NextHandler]_vars
-----------------------------------------------------------------------------
(* A rule of the table applied on its own: NCDS_COMPONENT_RULES is exported *)
(* with its mappers, and a mapper can be called on any node its condition   *)
(* accepts, whatever the rules before it say; the mapping is then rendered. *)

WidgetNames == { <<"Modal">>, <<"Dropdown">>, <<"Dropdown", "Menu">>, <<"Tooltip">>, <<"Empty">> }

\* Children with and without text, among them a title and a description.
WidgetKids ==
  { TabText("1"),
    Leaf(<<>>, "TEXT", W["Title"], <<W["Hi"]>>),
    Leaf(<<>>, "TEXT", W["Description"], <<W["Message"]>>),
    Leaf(<<>>, "TEXT", W["Title"], <<>>),
    Leaf(<<>>, "FRAME", W["Card"], <<>>) }

WidgetKidLists == UNION {[1..k -> WidgetKids] : k \in 0..MaxChildren}

InitWidget ==
  /\ rules = NCDS_COMPONENT_RULES
  /\ options \in {DefaultOptions,
                  constructorOptions([includeComments |-> FALSE, phpNamingConvention |-> FALSE])}
  /\ usedComponents = <<>>
  /\ componentCounter = EmptyCounter
  /\ pc = "start"
  /\ before = <<>>
  /\ design = <<>>
  /\ result = <<>>
  /\ \E ws \in WidgetNames, text \in {<<>>, <<W["Hello"]>>},
        kids \in {<<>>} \cup {<<k>> : k \in WidgetKidLists} :
       node = NodeInput("FRAME", joinWords(ws), text, kids)
  /\ mapping = null
  /\ valid = FALSE
  /\ inferred = ""
  /\ NoHandlerCall

\* rule.mapper(node), for a rule whose condition accepts the node
ApplyMapper ==
  /\ pc = "start"
  /\ \E i \in {j \in 1..Len(rules) : condition(rules[j], node)} :
       mapping' = mapper(rules[i], node)
  /\ pc' = "mapped"
  /\ UNCHANGED handlerVars
  /\ UNCHANGED <<rules, options, usedComponents, componentCounter, before, design, result,
                 node, valid, inferred>>

\* this.generateNcdsComponentHtml(mapping, node)
RenderWidget ==
  /\ pc = "mapped"
  /\ renderedNode(generateNcdsComponentHtml(mapping, node, usedComponents, componentCounter))
  /\ pc' = "rendered"
  /\ UNCHANGED handlerVars
  /\ UNCHANGED <<rules, options, before, design, node, mapping, valid, inferred>>

NextWidget == ApplyMapper \/ RenderWidget

SpecWidget == InitWidget /\ [][NextWidget]_vars
-----------------------------------------------------------------------------
(* Element ids: one node with a name over letters, digits and separators,  *)
(* rendered with the naming option on and off.                             *)

MaxNameLen == 4

NameChars == {"A", "b", "2", "_", " ", "-"}

RawNames == UNION {[1..k -> NameChars] : k \in 0..MaxNameLen}

\* The identifier the design tool gave the node.
RawIds == { <<"1", ":", "2">>, <<"I", "5", ":", "3", ";", "7">> }

InitNaming ==
  /\ rules = NCDS_COMPONENT_RULES
  /\ options \in {DefaultOptions, constructorOptions([phpNamingConvention |-> FALSE])}
  /\ usedComponents = <<>>
  /\ componentCounter = EmptyCounter
  /\ pc = "start"
  /\ before = <<>>
  /\ design = <<>>
  /\ result = <<>>
  /\ \E name \in RawNames, id \in RawIds, type \in {"FRAME", "INSTANCE"} :
       node = [Leaf(id, type, name, <<>>) EXCEPT !.children = <<>>]
  /\ mapping = null
  /\ valid = FALSE
  /\ inferred = ""
  /\ NoHandlerCall

SpecNaming == InitNaming /\ [][NextNode]_vars

-----------------------------------------------------------------------------
(* What the specification says of the mapper and of the generator, stated  *)
(* over the design tree itself and not over the code's bookkeeping.        *)

\* The component kinds the specification enumerates as supported.
SupportedKinds ==
  { "Button", "InputBase", "Checkbox", "Radio", "Select", "Badge", "Modal",
    "HorizontalTab", "Pagination", "ProgressBar", "Notification", "VerticalTab",
    "ProgressCircle", "Spinner", "Tag", "Toggle", "Tooltip", "Slider",
    "BreadCrumb", "Divider", "Dropdown", "EmptyState", "FeaturedIcon" }

\* The tokens inferSize looks for.
SizeTokens ==
  { "xxs", "tiny", "xs", "small", "sm", "lg", "large", "xl", "xlarge", "2xl", "xxlarge" }

Range(s) == {s[i] : i \in 1..Len(s)}

Least(set) == CHOOSE x \in set : \A y \in set : x <= y

\* The positions of the rules whose condition the node satisfies.
MatchingRules(n) == {i \in 1..Len(rules) : condition(rules[i], n)}

RuleIndex(r) == CHOOSE i \in 1..Len(rules) : rules[i].rule = r

\* The nodes of a forest, parents before children, siblings in input order.
RECURSIVE flatten(_)
flatten(nodes) ==
  IF nodes = <<>> THEN <<>>
  ELSE LET n == Head(nodes)
       IN  <<n>> \o (IF n.children = <<>> THEN <<>> ELSE flatten(n.children[1]))
                 \o flatten(Tail(nodes))

\* The supported kind a node classifies to, "" when it has none.
supportedKind(m) == IF m # null /\ m.component \in SupportedKinds THEN m.component ELSE ""

kindOf(n) == supportedKind(mapToNcdsComponent(n))

\* A node that the rules classify and the validator rejects.
unsupported(m) == m # null /\ m.component \notin SupportedKinds

rejected(n) == unsupported(mapToNcdsComponent(n))

\* The kinds of the nodes of a forest that have one, in document order.
kindsIn(nodes) ==
  LET f == flatten(nodes)
  IN  SelectSeq([i \in 1..Len(f) |-> kindOf(f[i])], LAMBDA k : k # "")

occurrences(s, k) == Cardinality({i \in 1..Len(s) : s[i] = k})

firstIndex(s, k) == Least({i \in 1..Len(s) : s[i] = k})

\* C1: a node of type INSTANCE is classified as Button, whatever its name, its
\* text and its children.
C1_InstanceIsButton ==
  (pc = "mapped" /\ node.type = "INSTANCE")
    => (mapping # null /\ mapping.component = "Button")

C1_Witness ==
  /\ pc = "mapped"
  /\ node.type = "INSTANCE"
  /\ ~includes(lname(node), S["button"])
  /\ includes(lname(node), S["checkbox"])
  /\ node.children # <<>>
  /\ mapping # null
  /\ mapping.component = "Button"

\* C2: the rules are evaluated in list order and the mapping returned is the
\* output of the mapper of the first rule whose condition holds; when no rule
\* matches the result is null.
C2_FirstMatchWins ==
  pc = "mapped"
    => IF MatchingRules(node) = {}
       THEN mapping = null
       ELSE mapping = mapper(rules[Least(MatchingRules(node))], node)

C2_Witness ==
  /\ pc = "mapped"
  /\ Cardinality(MatchingRules(node)) >= 2
  /\ \E i \in MatchingRules(node) : mapper(rules[i], node).component # mapping.component

\* C3: a FRAME whose name contains both "dropdown" and "select", and that no
\* rule placed before the Select rule matches, is classified as Select and
\* never as Dropdown.
C3_SelectBeforeDropdown ==
  ( /\ pc = "mapped"
    /\ node.type = "FRAME"
    /\ includes(lname(node), S["dropdown"])
    /\ includes(lname(node), S["select"])
    /\ \A i \in MatchingRules(node) : i >= RuleIndex("Select") )
    => (mapping # null /\ mapping.component = "Select")

C3_Witness ==
  /\ pc = "mapped"
  /\ node.type = "FRAME"
  /\ includes(lname(node), S["dropdown"])
  /\ includes(lname(node), S["select"])
  /\ \A i \in MatchingRules(node) : i >= RuleIndex("Select")
  /\ mapping # null
  /\ mapping.component = "Select"

\* C4: a node whose name contains both "tab" and "table" is never classified
\* as HorizontalTab.
C4_TableIsNoTab ==
  ( /\ pc = "mapped"
    /\ includes(lname(node), S["tab"])
    /\ includes(lname(node), S["table"]) )
    => (mapping = null \/ mapping.component # "HorizontalTab")

C4_Witness ==
  /\ pc = "mapped"
  /\ node.type = "FRAME"
  /\ includes(lname(node), S["tab"])
  /\ includes(lname(node), S["table"])
  /\ \A i \in MatchingRules(node) : i > RuleIndex("Tab")
  /\ (mapping = null \/ mapping.component # "HorizontalTab")

\* C5: the size inferred for a name that contains "2xl" (and no token other
\* than "2xl" and the "xl" inside it) is "2xl", not "xl"; the size inferred
\* for a name without any size token is "md".
C5_SizeOfName ==
  pc = "sized"
    => /\ ( /\ includes(lname(node), S["2xl"])
            /\ \A t \in SizeTokens \ {"2xl", "xl"} : ~includes(lname(node), S[t]) )
            => inferred = "2xl"
       /\ (\A t \in SizeTokens : ~includes(lname(node), S[t])) => inferred = "md"

\* C6: the validator accepts a mapping exactly when its component kind is one
\* of the supported kinds, and leaves the rule table and the usage state as
\* they were.
C6_ValidExactlySupported ==
  pc = "validated"
    => /\ valid <=> (mapping.component \in SupportedKinds)
       /\ rules = NCDS_COMPONENT_RULES
       /\ usedComponents = <<>>
       /\ componentCounter = EmptyCounter

C6_Witness ==
  /\ pc = "validated"
  /\ ~valid
  /\ mapping.component = "button"

\* C7: only a mapping that passed validation is dispatched to a widget
\* template and recorded as used.  A node whose mapping is rejected is
\* rendered exactly as a node without mapping is, adds no kind and no count,
\* and the rest of the tree is rendered and counted as usual.
C7_RejectedFallsBack ==
  pc = "returned"
    => /\ Range(usedComponents) \subseteq SupportedKinds
       /\ DOMAIN componentCounter \subseteq SupportedKinds
       /\ DOMAIN result[1].componentUsage \subseteq SupportedKinds
       /\ \A n \in Range(flatten(design[1].nodes)) :
            rejected(n) =>
              generateNodeHtml(n, <<>>, EmptyCounter) = generateRegularHtml(n, <<>>, EmptyCounter)
       /\ DOMAIN result[1].componentUsage = Range(kindsIn(design[1].nodes))

C7_Witness ==
  /\ pc = "returned"
  /\ \E n \in Range(flatten(design[1].nodes)) :
       /\ rejected(n)
       /\ n.children # <<>>
       /\ kindsIn(n.children[1]) # <<>>
  /\ Range(usedComponents) = Range(kindsIn(design[1].nodes))
  /\ usedComponents # <<>>

\* C8: the result of every call (markup, style sheet, import list and usage
\* counts) is the result an instance just constructed with the same options
\* gives for the same tree, and so is the usage state the call leaves.
C8_CallsAreIndependent ==
  pc = "returned"
    => LET fresh == generateFromDesign(design[1], <<>>, EmptyCounter)
       IN  /\ result[1] = fresh.result
           /\ usedComponents = fresh.used
           /\ componentCounter = fresh.counter

C8_Witness ==
  /\ pc = "returned"
  /\ before[1].used # <<>>
  /\ Range(before[1].used) \ Range(usedComponents) # {}
  /\ before[1].counter # result[1].componentUsage
  /\ result[1].componentUsage # EmptyCounter

\* C9: after a call the usage count of a kind is the number of nodes, at every
\* depth of the tree, that classify to the kind with a valid mapping; a kind
\* of no node has no entry.
C9_CountsAreNodeCounts ==
  pc = "returned"
    => LET kinds == kindsIn(design[1].nodes)
           usage == result[1].componentUsage
       IN  /\ DOMAIN usage = Range(kinds)
           /\ \A k \in DOMAIN usage : usage[k] = occurrences(kinds, k)

C9_Witness ==
  /\ pc = "returned"
  /\ Len(flatten(design[1].nodes)) >= 4
  /\ Cardinality(DOMAIN result[1].componentUsage) >= 2
  /\ \E k \in DOMAIN result[1].componentUsage : result[1].componentUsage[k] >= 2
  /\ \E n \in Range(flatten(design[1].nodes)) : rejected(n)

\* C10: with the import option on, the import list has no duplicates, holds
\* exactly the kinds with a positive usage count, and orders them by their
\* first use in a depth-first walk in document order; with the option off
\* there is no import list and the usage counts are returned all the same.
C10_ImportsInFirstUseOrder ==
  pc = "returned"
    => LET kinds == kindsIn(design[1].nodes)
           usage == result[1].componentUsage
       IN  IF options.generateNcdsImports
           THEN /\ result[1].imports # <<>>
                /\ LET imports == result[1].imports[1]
                   IN  /\ \A i, j \in 1..Len(imports) : imports[i] = imports[j] => i = j
                       /\ Range(imports) = {k \in DOMAIN usage : usage[k] > 0}
                       /\ Range(imports) = Range(kinds)
                       /\ \A i, j \in 1..Len(imports) :
                            i < j => firstIndex(kinds, imports[i]) < firstIndex(kinds, imports[j])
           ELSE /\ result[1].imports = <<>>
                /\ DOMAIN usage = Range(kinds)
                /\ \A k \in DOMAIN usage : usage[k] = occurrences(kinds, k)

C10_Witness ==
  /\ pc = "returned"
  /\ options.generateNcdsImports
  /\ result[1].imports # <<>>
  /\ Len(result[1].imports[1]) >= 2
  /\ \E k \in DOMAIN result[1].componentUsage : result[1].componentUsage[k] >= 2
  /\ kindOf(design[1].nodes[1]) # ""
  /\ design[1].nodes[1].children # <<>>
  /\ kindsIn(design[1].nodes[1].children[1]) # <<>>


\* The fields of a node that may be absent.
sparse(n) ==
  \/ nameless(n)
  \/ n.text = <<>> \/ n.layout = <<>> \/ n.opacity = <<>> \/ n.borderRadius = <<>>
  \/ n.children = <<>>

\* C11: generateFromDesign never raises on a sparsely populated tree: whatever
\* of name, text, layout, opacity, corner radius and children is absent in its
\* nodes, the call completes with a result.
C11_SparseNeverRaises ==
  (pc \in {"returned", "raised"} /\ \E n \in Range(flatten(design[1].nodes)) : sparse(n))
    => (pc = "returned" /\ result # <<>>)

\* The element the specification gives each node kind.
elementOf(type) ==
  IF type = "TEXT" THEN "span" ELSE IF type = "IMAGE" THEN "img" ELSE "div"

startsWith(s, t) == Len(s) >= Len(t) /\ SubSeq(s, 1, Len(t)) = t

endsWith(s, t) == Len(s) >= Len(t) /\ SubSeq(s, Len(s) - Len(t) + 1, Len(s)) = t

\* A node that is rendered by the generic fallback.
notWidget(m) == m = null \/ m.component \notin SupportedKinds

\* C12: the generic fallback never produces an empty fragment: the markup of a
\* node that is not rendered as a widget, a node with no text and no children
\* included, is not empty, opens with the tag of its element and ends with
\* the closing tag of that element.
C12_FallbackNeverEmpty ==
  (pc = "rendered" /\ notWidget(mapping))
    => /\ result[1] # <<>>
       /\ ~isBlank(result[1])
       /\ startsWith(result[1], <<"<", elementOf(node.type)>>)
       /\ endsWith(result[1], <<"</", elementOf(node.type), ">">>)

C12_Witness ==
  /\ pc = "rendered"
  /\ notWidget(mapping)
  /\ ~truthy(node.text)
  /\ node.children = <<>> \/ node.children[1] = <<>>
  /\ Len(result[1]) > 0

\* The fragment of one node and the child markup of one node, rendered on their own.
fragmentOf(n) == generateNodeHtml(n, <<>>, EmptyCounter).html

childMarkupOf(n) == generateChildren(n, <<>>, EmptyCounter).html

\* A fragment in front of the joined fragments after it: dropped when it is empty
\* once trimmed, separated by one newline otherwise.
joinedOnto(h, rest) ==
  IF \A i \in 1..Len(h) : h[i] \in {" ", "\n", "\t", "\r"} THEN rest
  ELSE IF rest = <<>> THEN h
  ELSE h \o <<"\n">> \o rest

\* The fragments of a list of siblings, in input order.
RECURSIVE siblingsJoined(_)
siblingsJoined(nodes) ==
  IF nodes = <<>> THEN <<>>
  ELSE joinedOnto(fragmentOf(Head(nodes)), siblingsJoined(Tail(nodes)))

childless(n) == n.children = <<>> \/ n.children[1] = <<>>

\* C13: the markup of a list of siblings is the fragments of the siblings in
\* input order, joined by one newline, without the fragments that are empty
\* once trimmed; this holds of the nodes of the design and of the children of
\* each of its nodes, and a node with no children has empty child markup.
C13_SiblingsJoinedInOrder ==
  pc = "returned"
    => /\ result[1].html = IF options.wrapInContainer
                           THEN wrapInContainer(siblingsJoined(design[1].nodes))
                           ELSE siblingsJoined(design[1].nodes)
       /\ \A n \in Range(flatten(design[1].nodes)) :
             childMarkupOf(n) = IF childless(n) THEN <<>> ELSE siblingsJoined(n.children[1])

C13_Witness ==
  /\ pc = "returned"
  /\ ~options.wrapInContainer
  /\ Len(design[1].nodes) = 2
  /\ fragmentOf(design[1].nodes[1]) # fragmentOf(design[1].nodes[2])
  /\ result[1].html = fragmentOf(design[1].nodes[1]) \o <<"\n">> \o fragmentOf(design[1].nodes[2])
  /\ \E n \in Range(flatten(design[1].nodes)) : childless(n) /\ childMarkupOf(n) = <<>>

NumberChars == {"0", "1", "2", "3", "4", "5", "6", "7", "8", "9", "-"}

digitOf(c) == CHOOSE d \in 0..9 : <<"0","1","2","3","4","5","6","7","8","9">>[d + 1] = c

\* The number a run of digits with an optional sign reads as.
RECURSIVE numberRead(_)
numberRead(s) ==
  IF s = <<>> THEN 0
  ELSE IF s[1] = "-" THEN 0 - numberRead(Tail(s))
  ELSE numberRead(SubSeq(s, 1, Len(s) - 1)) * 10 + digitOf(s[Len(s)])

\* The run of number characters that ends right before position p.
runBefore(html, p) ==
  SubSeq(html, Least({i \in 1..p : \A j \in i..(p - 1) : html[j] \in NumberChars}), p - 1)

\* What follows a progress value in the markup: the width and the label texts
\* end with a percent sign, aria-valuenow with the closing quote.
ProgressValueEnds ==
  { "%\" aria-valuenow=\"",
    "\" aria-valuemin=\"0\" aria-valuemax=\"100\"></div>\n    </div>\n    ",
    "%</span>",
    "%</div>\n</div>" }

progressGiven == IF "progress" \in DOMAIN mapping.props THEN <<mapping.props.progress>> ELSE <<>>

\* The value the specification asks for.
progressExpected ==
  IF progressGiven = <<>> THEN 0
  ELSE IF progressGiven[1] > 100 THEN 100
  ELSE IF progressGiven[1] < 0 THEN 0
  ELSE progressGiven[1]

\* C14: every progress value the progress-bar and the progress-circle template
\* write (width, aria-valuenow, percentage text) lies in 0..100: a value above
\* 100 is written as 100, a value below 0 as 0, a value inside the range
\* unchanged, and an absent value as 0.
C14_ProgressClamped ==
  (pc = "rendered" /\ mapping.component \in {"ProgressBar", "ProgressCircle"})
    => /\ \E p \in 1..Len(result[1]) : result[1][p] \in ProgressValueEnds
       /\ \A p \in 1..Len(result[1]) :
             result[1][p] \in ProgressValueEnds
               => /\ runBefore(result[1], p) # <<>>
                  /\ numberRead(runBefore(result[1], p)) \in 0..100
                  /\ numberRead(runBefore(result[1], p)) = progressExpected

C14_Witness ==
  /\ pc = "rendered"
  /\ mapping.component = "ProgressBar"
  /\ progressGiven = <<150>>
  /\ includes(result[1], <<"1", "0", "0", "%\" aria-valuenow=\"", "1", "0", "0">>)
  /\ includes(result[1], <<"1", "0", "0", "%</span>">>)

\* The members of a set of numbers, smallest first.
RECURSIVE ascending(_)
ascending(set) ==
  IF set = {} THEN <<>> ELSE <<Least(set)>> \o ascending(set \ {Least(set)})

positionsOf(html, chunk) == ascending({p \in 1..Len(html) : html[p] = chunk})

immediateChildren(n) == IF n.children = <<>> THEN <<>> ELSE n.children[1]

\* A child that bears text: a text node, or a node of another kind with text.
textBearing(c) == c.type = "TEXT" \/ (c.text # <<>> /\ c.text[1] # <<>>)

textBearingChildren(n) ==
  LET kids == immediateChildren(n)
  IN  ascending({i \in 1..Len(kids) : textBearing(kids[i])})

\* The start of one tab button in the markup, and what precedes its label.
TabButtonOpen ==
  "\n        <div class=\"swiper-slide\">\n          <button class=\"ncua-tab-button ncua-tab-button--"

TabLabelOpen == "\">\n            <span class=\"ncua-tab-button__label\">"

\* A frame the Tab rule is the first to match.
tabFrame(n) ==
  /\ n.type = "FRAME"
  /\ includes(lname(n), S["tab"])
  /\ ~includes(lname(n), S["table"])
  /\ \A i \in MatchingRules(n) : i >= RuleIndex("Tab")

\* The items agree with the text-bearing children, one for one and in order.
itemsOfChildren(items, kids, bearing) ==
  /\ Len(items) = Len(bearing)
  /\ \A k \in 1..Len(bearing) :
        /\ items[k].isActive = includes(lname(kids[bearing[k]]), S["active"])
        /\ items[k].label = IF kids[bearing[k]].text # <<>> /\ kids[bearing[k]].text[1] # <<>>
                            THEN kids[bearing[k]].text[1] ELSE kids[bearing[k]].name

\* The tab buttons of the markup agree with the items, one for one and in order.
buttonsOfItems(html, items, opens, labels) ==
  /\ Len(opens) = Len(items)
  /\ Len(labels) = Len(items)
  /\ \A k \in 1..Len(items) :
        /\ opens[k] < labels[k]
        /\ k < Len(items) => labels[k] < opens[k + 1]
        /\ (\E p \in opens[k]..labels[k] : html[p] = " is-active") <=> items[k].isActive
        /\ SubSeq(html, labels[k] + 1, labels[k] + Len(items[k].label)) = items[k].label

\* C15: a FRAME whose name contains "tab" and not "table", and that no earlier
\* rule matches, is classified HorizontalTab with one item per text-bearing
\* immediate child, in child order, active exactly when the child's own name
\* contains "active"; the markup has exactly one tab button per item, in the
\* same order, with the active class on exactly the flagged ones.
C15_TabItemsAndButtons ==
  (pc = "rendered" /\ tabFrame(node))
    => /\ mapping # null
       /\ mapping.component = "HorizontalTab"
       /\ itemsOfChildren(mapping.props.tabs, immediateChildren(node), textBearingChildren(node))
       /\ buttonsOfItems(result[1], mapping.props.tabs,
                         positionsOf(result[1], TabButtonOpen),
                         positionsOf(result[1], TabLabelOpen))

\* Three children named "Tab 1", "Tab 2 Active", "Tab 3": three buttons, the
\* active class on one.
C15_Witness ==
  /\ pc = "rendered"
  /\ tabFrame(node)
  /\ Len(immediateChildren(node)) = 3
  /\ \A i \in 1..3 : /\ immediateChildren(node)[i].name = ThreeTabs[i].name
                     /\ textBearing(immediateChildren(node)[i])
  /\ Len(mapping.props.tabs) = 3
  /\ mapping.props.tabs[2].isActive
  /\ Len(positionsOf(result[1], TabButtonOpen)) = 3
  /\ Len(positionsOf(result[1], " is-active")) = 1

ButtonSizes == {"xxs", "xs", "sm", "md", "lg", "xl", "2xl"}

\* A frame named as a button, with a text that is not empty.
buttonFrameWithText(n) ==
  /\ n.type = "FRAME"
  /\ includes(lname(n), S["button"])
  /\ n.text # <<>>
  /\ n.text[1] # <<>>

\* C16: a FRAME whose name contains "button" and whose text t is not empty is
\* classified Button with label t, hierarchy "primary" when the name contains
\* "primary" and an inferred size, "md" when the name has no size token; the
\* markup is one button element whose label span contains t.
C16_ButtonFromFrame ==
  (pc = "rendered" /\ buttonFrameWithText(node))
    => /\ mapping # null
       /\ mapping.component = "Button"
       /\ mapping.props.label = node.text[1]
       /\ includes(lname(node), S["primary"]) => mapping.props.hierarchy = "primary"
       /\ mapping.props.size \in ButtonSizes
       /\ (\A t \in SizeTokens : ~includes(lname(node), S[t])) => mapping.props.size = "md"
       /\ Len(positionsOf(result[1], "<button")) = 1
       /\ ~options.includeComments => startsWith(result[1], <<"<button">>)
       /\ endsWith(result[1], <<"</button>">>)
       /\ includes(result[1],
                   <<"<span class=\"ncua-btn__label\">">> \o node.text[1] \o <<"</span>">>)

\* A frame named "Primary Button" with text "Submit".
C16_Witness ==
  /\ pc = "rendered"
  /\ node.type = "FRAME"
  /\ node.name = W["Primary"] \o <<" ">> \o W["Button"]
  /\ node.text = <<W["Submit"]>>
  /\ mapping.props = [label |-> W["Submit"], hierarchy |-> "primary", size |-> "md",
                      disabled |-> FALSE]
  /\ includes(result[1], <<"<span class=\"ncua-btn__label\">">> \o W["Submit"] \o <<"</span>">>)

\* The pieces of the checkbox markup: the label element opens, the span around
\* the input opens inside it (closing the label's opening tag), the input opens
\* inside the span (closing the span's opening tag), and so on to the end.
CheckboxLabelOpen == "\n<label class=\"ncua-checkbox-field ncua-checkbox-field--"

CheckboxSpanOpen == "\">\n  <span class=\"ncua-checkbox-input ncua-checkbox-input--"

CheckboxInputOpen == "\">\n    <input"

CheckboxInputType == " class=\"ncua-checkbox-field__input\" type=\"checkbox\""

CheckboxInputClose == " />\n    <span class=\"ncua-checkbox-input__ico\"></span>\n  </span>\n  "

CheckboxLabelClose == "\n</label>"

\* x occurs in html after an a and before the next b, with no a or b between.
occursBetween(html, x, a, b) ==
  \E i, j, k \in 1..Len(html) :
     /\ i < j /\ j < k
     /\ html[i] = a /\ html[j] = x /\ html[k] = b
     /\ \A m \in (i + 1)..(k - 1) : html[m] \notin {a, b}

\* A frame without text the Checkbox rule is the first to match, named disabled.
disabledCheckboxFrame(n) ==
  /\ n.type = "FRAME"
  /\ (n.text = <<>> \/ n.text[1] = <<>>)
  /\ includes(lname(n), S["checkbox"])
  /\ includes(lname(n), S["disabled"])
  /\ \A i \in MatchingRules(n) : i >= RuleIndex("Checkbox")

checkboxMappingDisabled(m, n) ==
  /\ m # null
  /\ m.component = "Checkbox"
  /\ m.props.disabled = TRUE
  /\ m.props.label = n.name

\* The label element contains an input of type checkbox with a disabled attribute.
disabledInputInLabel(html) ==
  /\ occursBetween(html, CheckboxInputOpen, CheckboxLabelOpen, CheckboxLabelClose)
  /\ occursBetween(html, CheckboxInputType, CheckboxInputOpen, CheckboxInputClose)
  /\ occursBetween(html, " disabled", CheckboxInputType, CheckboxInputClose)

\* C17 as stated: the disabled-state class is carried by the label element
\* itself, that is, it stands in the class attribute of the label's opening tag.
C17_LabelCarriesDisabledClass ==
  (pc = "rendered" /\ disabledCheckboxFrame(node))
    => /\ checkboxMappingDisabled(mapping, node)
       /\ occursBetween(result[1], " is-disabled", CheckboxLabelOpen, CheckboxSpanOpen)
       /\ disabledInputInLabel(result[1])

\* C17: a FRAME without text whose name contains "checkbox" and "disabled",
\* and that no earlier rule matches, is classified Checkbox with disabled true
\* and the node name as label; in the markup the label element contains a span
\* that carries the disabled-state class and wraps an input of type checkbox
\* with a disabled attribute (the label's own class attribute has no
\* disabled-state class).
C17_SpanCarriesDisabledClass ==
  (pc = "rendered" /\ disabledCheckboxFrame(node))
    => /\ checkboxMappingDisabled(mapping, node)
       /\ occursBetween(result[1], CheckboxSpanOpen, CheckboxLabelOpen, CheckboxLabelClose)
       /\ occursBetween(result[1], " is-disabled", CheckboxSpanOpen, CheckboxInputOpen)
       /\ ~occursBetween(result[1], " is-disabled", CheckboxLabelOpen, CheckboxSpanOpen)
       /\ Len(positionsOf(result[1], " is-disabled")) = 1
       /\ disabledInputInLabel(result[1])

\* A frame named "Checkbox Disabled" with no text.
C17_Witness ==
  /\ pc = "rendered"
  /\ disabledCheckboxFrame(node)
  /\ node.name = W["Checkbox"] \o <<" ">> \o W["Disabled"]
  /\ node.text = <<>>
  /\ mapping.props.label = node.name
  /\ occursBetween(result[1], " is-disabled", CheckboxSpanOpen, CheckboxInputOpen)

\* The structural class the specification derives from the node kind.
structuralClass(type) ==
  CASE type = "TEXT" -> "text" [] type = "FRAME" -> "frame" [] type = "GROUP" -> "group"
    [] type = "RECTANGLE" -> "rectangle" [] type = "ELLIPSE" -> "ellipse"
    [] type = "IMAGE" -> "image" [] type = "LINE" -> "line" [] type = "INSTANCE" -> "instance"

\* What the element ends with: the text of the node, the markup of its children
\* and the closing tag.
contentAndClose(n) ==
  (IF n.text # <<>> THEN n.text[1] ELSE <<>>)
    \o (IF childless(n) THEN <<>> ELSE siblingsJoined(n.children[1]))
    \o <<"</", elementOf(n.type), ">">>

\* The opening tag: what precedes the content.
openingTag(html, n) == SubSeq(html, 1, Len(html) - Len(contentAndClose(n)))

\* An opening tag of the element e whose only class is the structural one.
structuralOpeningTag(tag, e, type) ==
  /\ startsWith(tag, <<"<", e, " ">>)
  /\ tag[Len(tag)] = ">"
  /\ Len(positionsOf(tag, "class=\"")) = 1
  /\ includes(tag, <<"class=\"", "figma-", structuralClass(type), "\"">>)

\* C18: a node that no rule matches is rendered as one element chosen by its
\* kind (a span for TEXT, an img for IMAGE, a div for every other kind), whose
\* only class is the structural class of the kind, and whose content is the
\* text of the node followed by the markup of its children.
C18_FallbackElement ==
  (pc = "rendered" /\ MatchingRules(node) = {})
    => /\ mapping = null
       /\ endsWith(result[1], contentAndClose(node))
       /\ structuralOpeningTag(openingTag(result[1], node), elementOf(node.type), node.type)

\* A TEXT node with text "Hello" gives a span containing "Hello".
C18_Witness ==
  /\ pc = "rendered"
  /\ MatchingRules(node) = {}
  /\ node.type = "TEXT"
  /\ node.text = <<W["Hello"]>>
  /\ startsWith(result[1], <<"<", "span">>)
  /\ includes(result[1], <<">">> \o W["Hello"])
  /\ endsWith(result[1], <<"</", "span", ">">>)

\* The handler has run the generator, or is about to.
renderingStarted == pc \in {"simplified", "generated"} \/ result # <<>>

oneTextBlock(r) == Len(r.content) = 1 /\ r.content[1].type = "text"

\* The text names the failure: the message of an Error, the value itself
\* written out when what was raised is not an Error.
carriesFailure(text, e) ==
  IF e.isError THEN endsWith(text, e.message) /\ e.message # <<>>
  ELSE \/ e.kind = "string" /\ includes(text, e.value)
       \/ e.kind = "object" /\ includes(text, toDecimal(e.status))
       \/ e.kind = "undefined" /\ endsWith(text, <<"undefined">>)

C20_DropdownIsDropdown ==
  ( /\ pc = "mapped"
    /\ node.type = "FRAME"
    /\ includes(lname(node), S["dropdown"])
    /\ ~includes(lname(node), S["select"])
    /\ \A r \in {"Button", "Input", "Checkbox", "Radio"} : RuleIndex(r) \notin MatchingRules(node) )
    => (mapping # null /\ mapping.component = "Dropdown")

\* The ordered token scan of the specification over a lower-cased name.
sizeOfName(name) ==
  IF includes(name, S["xxs"]) \/ includes(name, S["tiny"]) THEN "xxs"
  ELSE IF includes(name, S["xs"]) \/ includes(name, S["small"]) THEN "xs"
  ELSE IF includes(name, S["sm"]) THEN "sm"
  ELSE IF includes(name, S["lg"]) \/ includes(name, S["large"]) THEN "lg"
  ELSE IF includes(name, S["xl"]) \/ includes(name, S["xlarge"]) THEN "xl"
  ELSE IF includes(name, S["2xl"]) \/ includes(name, S["xxlarge"]) THEN "2xl"
  ELSE "md"

\* C21: the inferred size is determined by the name alone, by the ordered
\* token scan with default "md", whether or not the node carries a layout box:
\* a node whose name contains "lg" gets "lg" even when its layout is absent.
C21_SizeByNameAlone ==
  pc = "sized" => inferred = sizeOfName(lname(node))

\* The two items of the default dropdown menu.
DefaultDropdownItems ==
  << [label |-> S["ko:opsyeon 1"], value |-> S["1"]],
     [label |-> S["ko:opsyeon 2"], value |-> S["2"]] >>

\* The immediate children that have a text, by position.
childrenWithText(n) ==
  LET kids == immediateChildren(n)
  IN  ascending({i \in 1..Len(kids) : kids[i].text # <<>> /\ kids[i].text[1] # <<>>})

\* One label/value pair per child with text, the value its position in the list.
dropdownItemsOf(n, bearing) ==
  IF bearing = <<>> THEN DefaultDropdownItems
  ELSE [k \in 1..Len(bearing) |->
          [label |-> immediateChildren(n)[bearing[k]].text[1], value |-> toDecimal(k)]]

DropdownItemOpen ==
  "<li class=\"ncua-dropdown__item\">\n        <button class=\"ncua-dropdown__button\" type=\"button\" data-value=\""

\* The menu of the markup has one entry per item, in order.
menuOfItems(html, items, opens) ==
  /\ Len(opens) = Len(items)
  /\ \A k \in 1..Len(items) :
        startsWith(SubSeq(html, opens[k] + 1, Len(html)),
                   items[k].value \o <<"\">">> \o items[k].label)

\* C22: dropdown item extraction returns, in child order, one label/value
\* pair per immediate child with text, the value being the 1-based position of
\* the item as a decimal string; when no child has text, whether the node has
\* no children or children without text, the items and the rendered menu are
\* the fixed two-item default.
C22_DropdownItems ==
  (pc \in {"mapped", "rendered"} /\ mapping # null /\ mapping.component = "Dropdown")
    => /\ mapping.props.items = dropdownItemsOf(node, childrenWithText(node))
       /\ pc = "rendered"
            => menuOfItems(result[1], dropdownItemsOf(node, childrenWithText(node)),
                           positionsOf(result[1], DropdownItemOpen))

ContainerKinds == {"Modal", "Dropdown", "Tooltip", "EmptyState"}

\* C23: the markup of a node rendered as a Modal, Dropdown, Tooltip or
\* EmptyState widget whose children render to non-empty markup contains that
\* child markup as inner content.
C23_ChildMarkupInContainers ==
  (pc = "rendered" /\ mapping # null /\ mapping.component \in ContainerKinds
     /\ childMarkupOf(node) # <<>>)
    => includes(result[1], childMarkupOf(node))

LowerAlnum ==
  {"a","b","c","d","e","f","g","h","i","j","k","l","m","n","o","p","q","r","s","t",
   "u","v","w","x","y","z","0","1","2","3","4","5","6","7","8","9"}

\* A name read from the left: the maximal runs of a-z and 0-9, each run after
\* the first preceded by one underscore; what lies outside the runs is dropped.
RECURSIVE runsJoined(_, _, _)
runsJoined(s, out, pending) ==
  IF s = <<>> THEN out
  ELSE IF s[1] \in LowerAlnum
       THEN runsJoined(Tail(s),
                       out \o (IF pending /\ out # <<>> THEN <<"_">> ELSE <<>>) \o <<s[1]>>,
                       FALSE)
       ELSE runsJoined(Tail(s), out, TRUE)

normalizedName(name) == runsJoined(toLowerCase(name), <<>>, FALSE)

\* The value of the id attribute of the first element of the markup, <<>> when
\* the element has none.
emittedId(html) ==
  IF \E p \in 1..Len(html) : html[p] \in {"id=\"", " id=\""}
  THEN LET from == Least({p \in 1..Len(html) : html[p] \in {"id=\"", " id=\""}}) + 1
       IN  SubSeq(html, from, Least({q \in from..Len(html) : html[q] = "\""}) - 1)
  ELSE <<>>

wellFormedId(id) ==
  /\ \A i \in 1..Len(id) : id[i] \in LowerAlnum \cup {"_"}
  /\ ~includes(id, <<"_", "_">>)
  /\ id # <<>> => (id[1] # "_" /\ id[Len(id)] # "_")

\* C24: with the naming option on, the emitted id is the node name in lower
\* case with every maximal run of characters outside a-z and 0-9 replaced by
\* one underscore and no underscore at either end, so it never has two
\* consecutive underscores and normalizing it again changes nothing; with the
\* option off the id is the raw identifier of the node.
C24_NormalizedId ==
  pc = "rendered"
    => IF options.phpNamingConvention
       THEN /\ emittedId(result[1]) = normalizedName(node.name)
            /\ wellFormedId(emittedId(result[1]))
            /\ toPhpNaming(emittedId(result[1])) = emittedId(result[1])
       ELSE emittedId(result[1]) = node.id

C24_Witness ==
  /\ pc = "rendered"
  /\ options.phpNamingConvention
  /\ node.name = <<"A", "-", "_", "b">>
  /\ emittedId(result[1]) = <<"a", "_", "b">>

\* The template dispatch falls through to its default for this mapping.
genericTemplate(m, n) ==
  dispatchTemplate(m, generateId(n), generateClassName(m), generateNcdsProps(m.props), <<>>, n)
    = generateGenericComponentHtml(m, generateId(n), generateClassName(m),
                                   generateNcdsProps(m.props), <<>>)

\* C25: every mapping mapToNcdsComponent returns has a kind that
\* validateNcdsMapping accepts and that a case of the template dispatch handles,
\* so neither the rejected-mapping fallback nor the default template is reached.
C25_MappedKindsHandled ==
  (pc \in {"mapped", "validated"} /\ mapping # null)
    => /\ validateNcdsMapping(mapping)
       /\ ~genericTemplate(mapping, node)
       /\ pc = "validated" => valid

C25_Witness ==
  /\ pc = "validated"
  /\ valid
  /\ mapping.component = "HorizontalTab"
  /\ ~genericTemplate(mapping, node)

\* Some node of the input set is classified as the kind by the rules in force.
classifiedSomewhere(k) ==
  \E t \in MapTypes, ws \in WordSeqs(RuleVocabulary, MaxWords) :
    kindOf(MapInput(t, ws, FALSE)) = k

\* C26: every kind validateNcdsMapping accepts is the classification of at
\* least one node, Tag and Dropdown included: no rule of the table is shadowed
\* entirely by the rules before it.
C26_EveryKindReachable == \A k \in SupportedKinds : classifiedSomewhere(k)

TabRuleKinds == {"HorizontalTab", "VerticalTab"}

\* The rules whose condition the node satisfies all belong to the two tab rules.
onlyTabRulesMatch(n) ==
  \A i \in 1..Len(rules) : condition(rules[i], n) => mapper(rules[i], n).component \in TabRuleKinds

\* C27: a FRAME whose name contains both "vertical" and "tab", and which no
\* rule other than the tab rules matches, is classified VerticalTab.
C27_VerticalTabIsVertical ==
  (/\ pc = "mapped"
   /\ node.type = "FRAME"
   /\ includes(lname(node), S["vertical"])
   /\ includes(lname(node), S["tab"])
   /\ onlyTabRulesMatch(node))
    => (mapping # null /\ mapping.component = "VerticalTab")

\* The number of widget fragments of a kind in a markup written with comments:
\* each fragment begins with the comment line naming its kind.
fragmentsOfKind(html, k) ==
  Cardinality({p \in 1..(Len(html) - 1) : html[p] = "<!-- NCDS " /\ html[p + 1] = k})

\* C28: in every result the usage count of each kind is the number of widget
\* fragments of the kind in the markup, so every node that was counted, a
\* descendant of a widget whose template takes no child markup included, has
\* its fragment in the markup (fragments are told by their comment line, so the
\* comparison is made on the results written with comments).
C28_CountedNodesAreEmitted ==
  (pc = "returned" /\ options.includeComments)
    => \A k \in SupportedKinds :
         fragmentsOfKind(result[1].html, k)
           = IF k \in DOMAIN result[1].componentUsage THEN result[1].componentUsage[k] ELSE 0
=============================================================================
